---- MODULE Spec2Model ----
(***************************************************************************)
(* Suggestion-and-cost pipeline of interio-ai: CostEstimator.estimate_cost *)
(* (cost_estimator.py), InteriorSuggestionEngine.analyze_room              *)
(* (suggestion_engine.py) and the orchestrator InterioAI.analyze_room      *)
(* (interioai_complete.py) that runs them between the detector and the     *)
(* renderer.                                                               *)
(*                                                                         *)
(* Python strings that take part in substring tests are sequences of       *)
(* one-character strings; strings that are only compared for equality      *)
(* (budget levels, room-type names, style names) are TLA+ strings.         *)
(***************************************************************************)
EXTENDS Integers, Sequences, FiniteSets, TLC

VARIABLES
  pc,               \* "estimate" | "analyze" : call pending, "done" : returned,
                    \* "raised" : ended in an exception; in an orchestrator
                    \* run the step that comes next, "returned" at the end
  furniture_items,  \* estimate_cost argument: list of item names
  budget_level,     \* estimate_cost argument: tier string
  cost_breakdown,   \* dict returned by estimate_cost (None before the return)
  detected_objects, \* analyze_room argument: list of detected labels
  force_room_type,  \* analyze_room argument: <<>> for None, <<s>> for string s
  analysis,         \* dict returned by analyze_room (None before the return)
  user_room_type,   \* InterioAI.analyze_room argument: <<>> for None, <<s>>
  user_style,       \* InterioAI.analyze_room argument: <<>> for None, <<s>>
  engine_analysis,  \* the dict as the engine returned it to the orchestrator
  detector_failed,  \* _detect_furniture ended in its except branch
  dimensions,       \* "none" | "estimated"
  design_files,     \* "none" | "files"
  edited_image,     \* "none" | "edited"
  cost_breakdown_inr, \* results['cost_breakdown'] (None when nothing is priced)
  calls,            \* the collaborators invoked so far in this run, in order
  estimator,        \* the CostEstimator instance: its furniture_prices
  engine,           \* the InteriorSuggestionEngine instance: its
                    \* room_furniture and styles
  first_result,     \* what the first of two identical calls returned
  intervening,      \* calls made between the two identical calls
  requests,         \* the calls in progress on the shared estimator and
                    \* engine: request |-> arguments, position, locals, result
  ai_system,        \* app.py's global: None or the InterioAI instance
  constructed,      \* how many times InterioAI(...) has been constructed
  workers           \* the threads serving /api/analyze: worker |-> position,
                    \* the instance it built, the instance it used

orch_vars == <<user_room_type, user_style, engine_analysis, detector_failed,
               dimensions, design_files, edited_image, cost_breakdown_inr,
               calls>>

instances == <<estimator, engine>>

repeat_vars == <<first_result, intervening>>

app_vars == <<ai_system, constructed, workers>>

server_vars == <<requests, app_vars>>

vars == <<pc, furniture_items, budget_level, cost_breakdown,
          detected_objects, force_room_type, analysis, orch_vars,
          instances, repeat_vars, server_vars>>

-----------------------------------------------------------------------------
(* Bounds of the explored input space.                                     *)

MaxItems == 2

MaxDetected == 2

\* most objects the detector reports in an orchestrator run
MaxOrchDetected == 1

\* longest list handed to a call that is made twice
MaxRepeatLen == 1

\* most calls made between the two identical calls
MaxIntervening == 2

\* longest list handed to a call that runs concurrently with another
MaxConcLen == 1

-----------------------------------------------------------------------------
(* Python str builtins used by the two components.                         *)

UpperChars ==
  <<"A", "B", "C", "D", "E", "F", "G", "H", "I", "J", "K", "L", "M",
    "N", "O", "P", "Q", "R", "S", "T", "U", "V", "W", "X", "Y", "Z">>

LowerChars ==
  <<"a", "b", "c", "d", "e", "f", "g", "h", "i", "j", "k", "l", "m",
    "n", "o", "p", "q", "r", "s", "t", "u", "v", "w", "x", "y", "z">>

IsUpper(c) == \E i \in 1..Len(UpperChars) : UpperChars[i] = c

IsLower(c) == \E i \in 1..Len(LowerChars) : LowerChars[i] = c

IsSpace(c) == c = " "

LowerChar(c) ==
  IF IsUpper(c)
    THEN LowerChars[CHOOSE i \in 1..Len(UpperChars) : UpperChars[i] = c]
    ELSE c

UpperChar(c) ==
  IF IsLower(c)
    THEN UpperChars[CHOOSE i \in 1..Len(LowerChars) : LowerChars[i] = c]
    ELSE c

\* str.lower()
Lower(s) == [i \in 1..Len(s) |-> LowerChar(s[i])]

\* str.strip(): leading and trailing whitespace removed
Strip(s) ==
  LET keep == {i \in 1..Len(s) : ~IsSpace(s[i])}
      first == CHOOSE i \in keep : \A j \in keep : i <= j
      last == CHOOSE i \in keep : \A j \in keep : j <= i
  IN  IF keep = {} THEN <<>> ELSE SubSeq(s, first, last)

\* str.title(): a letter is upper-cased after a non-letter, lower-cased
\* after a letter
Title(s) ==
  [i \in 1..Len(s) |->
     IF i = 1 \/ ~(IsUpper(s[i - 1]) \/ IsLower(s[i - 1]))
       THEN UpperChar(s[i])
       ELSE LowerChar(s[i])]

\* the Python test `a in b` on strings
IsSubstr(a, b) ==
  \E i \in 0..(Len(b) - Len(a)) : SubSeq(b, i + 1, i + Len(a)) = a

\* the value None
None == [is_none |-> TRUE]

-----------------------------------------------------------------------------
(* CostEstimator                                                           *)

BudgetLevels == {"budget", "mid-range", "premium"}

\* variant: the three prices of an entry are stored in reverse
P_Reversed(b, m, p) ==
  [level \in BudgetLevels |->
     CASE level = "budget" -> p
       [] level = "mid-range" -> m
       [] OTHER -> b]

\* one entry of the dict literal: {'budget': b, 'mid-range': m, 'premium': p}
P(b, m, p) ==
  [level \in BudgetLevels |->
     CASE level = "budget" -> b
       [] level = "mid-range" -> m
       [] OTHER -> p]

\* CostEstimator(): self.furniture_prices as the dict literal builds it: keys in declaration
\* order; 'vanity' is written twice with the same prices and keeps the place
\* of its first occurrence.
CostEstimator ==
  [furniture_prices |->
  <<
     [key |-> <<"s", "o", "f", "a">>,
      price |-> P(15000, 35000, 75000)],
     [key |-> <<"c", "o", "f", "f", "e", "e", " ", "t", "a", "b", "l", "e">>,
      price |-> P(3000, 8000, 20000)],
     [key |-> <<"t", "v", " ", "s", "t", "a", "n", "d">>,
      price |-> P(4000, 12000, 30000)],
     [key |-> <<"a", "r", "m", "c", "h", "a", "i", "r">>,
      price |-> P(8000, 18000, 40000)],
     [key |-> <<"s", "i", "d", "e", " ", "t", "a", "b", "l", "e">>,
      price |-> P(2000, 5000, 12000)],
     [key |-> <<"f", "l", "o", "o", "r", " ", "l", "a", "m", "p">>,
      price |-> P(1500, 4000, 10000)],
     [key |-> <<"r", "u", "g">>,
      price |-> P(2500, 8000, 25000)],
     [key |-> <<"b", "o", "o", "k", "s", "h", "e", "l", "f">>,
      price |-> P(5000, 12000, 30000)],
     [key |-> <<"o", "t", "t", "o", "m", "a", "n">>,
      price |-> P(4000, 9000, 20000)],
     [key |-> <<"c", "o", "n", "s", "o", "l", "e", " ", "t", "a", "b", "l", "e">>,
      price |-> P(6000, 15000, 35000)],
     [key |-> <<"b", "e", "d">>,
      price |-> P(12000, 30000, 80000)],
     [key |-> <<"n", "i", "g", "h", "t", "s", "t", "a", "n", "d">>,
      price |-> P(3000, 7000, 18000)],
     [key |-> <<"w", "a", "r", "d", "r", "o", "b", "e">>,
      price |-> P(15000, 35000, 90000)],
     [key |-> <<"d", "r", "e", "s", "s", "e", "r">>,
      price |-> P(8000, 18000, 45000)],
     [key |-> <<"b", "e", "d", "s", "i", "d", "e", " ", "l", "a", "m", "p">>,
      price |-> P(1000, 3000, 8000)],
     [key |-> <<"m", "i", "r", "r", "o", "r">>,
      price |-> P(2000, 5000, 15000)],
     [key |-> <<"v", "a", "n", "i", "t", "y">>,
      price |-> P(10000, 25000, 60000)],
     [key |-> <<"r", "e", "a", "d", "i", "n", "g", " ", "c", "h", "a", "i", "r">>,
      price |-> P(6000, 15000, 35000)],
     [key |-> <<"b", "e", "n", "c", "h">>,
      price |-> P(4000, 10000, 25000)],
     [key |-> <<"r", "e", "a", "d", "i", "n", "g", " ", "l", "a", "m", "p">>,
      price |-> P(1500, 4000, 10000)],
     [key |-> <<"d", "i", "n", "i", "n", "g", " ", "t", "a", "b", "l", "e">>,
      price |-> P(10000, 25000, 65000)],
     [key |-> <<"d", "i", "n", "i", "n", "g", " ", "c", "h", "a", "i", "r">>,
      price |-> P(2000, 5000, 12000)],
     [key |-> <<"d", "i", "n", "i", "n", "g", " ", "c", "h", "a", "i", "r", "s">>,
      price |-> P(8000, 20000, 48000)],
     [key |-> <<"b", "a", "r", " ", "s", "t", "o", "o", "l">>,
      price |-> P(2000, 5000, 12000)],
     [key |-> <<"b", "a", "r", " ", "s", "t", "o", "o", "l", "s">>,
      price |-> P(6000, 15000, 36000)],
     [key |-> <<"p", "e", "n", "d", "a", "n", "t", " ", "l", "i", "g", "h", "t">>,
      price |-> P(2000, 6000, 18000)],
     [key |-> <<"p", "e", "n", "d", "a", "n", "t", " ", "l", "i", "g", "h", "t", "s">>,
      price |-> P(5000, 15000, 45000)],
     [key |-> <<"k", "i", "t", "c", "h", "e", "n", " ", "i", "s", "l", "a", "n", "d">>,
      price |-> P(20000, 45000, 100000)],
     [key |-> <<"s", "i", "d", "e", "b", "o", "a", "r", "d">>,
      price |-> P(12000, 30000, 75000)],
     [key |-> <<"w", "i", "n", "e", " ", "r", "a", "c", "k">>,
      price |-> P(3000, 8000, 20000)],
     [key |-> <<"b", "a", "r", " ", "c", "a", "r", "t">>,
      price |-> P(5000, 12000, 30000)],
     [key |-> <<"c", "h", "a", "i", "r", "s">>,
      price |-> P(6000, 15000, 36000)],
     [key |-> <<"d", "e", "s", "k">>,
      price |-> P(8000, 18000, 45000)],
     [key |-> <<"o", "f", "f", "i", "c", "e", " ", "c", "h", "a", "i", "r">>,
      price |-> P(6000, 15000, 40000)],
     [key |-> <<"f", "i", "l", "i", "n", "g", " ", "c", "a", "b", "i", "n", "e", "t">>,
      price |-> P(5000, 12000, 28000)],
     [key |-> <<"d", "e", "s", "k", " ", "l", "a", "m", "p">>,
      price |-> P(1200, 3500, 9000)],
     [key |-> <<"c", "r", "e", "d", "e", "n", "z", "a">>,
      price |-> P(15000, 35000, 80000)],
     [key |-> <<"s", "t", "u", "d", "y", " ", "d", "e", "s", "k">>,
      price |-> P(7000, 16000, 40000)],
     [key |-> <<"c", "h", "a", "i", "r">>,
      price |-> P(3000, 8000, 20000)],
     [key |-> <<"s", "t", "o", "r", "a", "g", "e", " ", "c", "a", "b", "i", "n", "e", "t">>,
      price |-> P(6000, 15000, 35000)],
     [key |-> <<"t", "o", "w", "e", "l", " ", "r", "a", "c", "k">>,
      price |-> P(800, 2000, 5000)],
     [key |-> <<"b", "a", "t", "h", " ", "m", "a", "t">>,
      price |-> P(500, 1500, 4000)],
     [key |-> <<"d", "e", "c", "o", "r", "a", "t", "i", "v", "e", " ", "s", "h", "e", "l", "f">>,
      price |-> P(2000, 5000, 12000)],
     [key |-> <<"p", "l", "a", "n", "t", " ", "s", "t", "a", "n", "d">>,
      price |-> P(1500, 4000, 10000)],
     [key |-> <<"p", "u", "j", "a", " ", "s", "h", "e", "l", "f">>,
      price |-> P(5000, 12000, 30000)],
     [key |-> <<"w", "o", "o", "d", "e", "n", " ", "p", "u", "j", "a", " ", "m", "a", "n", "d", "i", "r">>,
      price |-> P(10000, 25000, 65000)],
     [key |-> <<"d", "e", "i", "t", "y", " ", "i", "d", "o", "l", "s">>,
      price |-> P(2000, 5000, 15000)],
     [key |-> <<"d", "i", "y", "a", " ", "s", "t", "a", "n", "d">>,
      price |-> P(1000, 3000, 8000)],
     [key |-> <<"b", "r", "a", "s", "s", " ", "d", "i", "y", "a">>,
      price |-> P(800, 2000, 6000)],
     [key |-> <<"p", "r", "a", "y", "e", "r", " ", "m", "a", "t">>,
      price |-> P(500, 1500, 4000)],
     [key |-> <<"i", "n", "c", "e", "n", "s", "e", " ", "h", "o", "l", "d", "e", "r">>,
      price |-> P(400, 1000, 3000)],
     [key |-> <<"i", "n", "c", "e", "n", "s", "e", " ", "s", "t", "a", "n", "d">>,
      price |-> P(600, 1500, 4000)],
     [key |-> <<"p", "r", "a", "y", "e", "r", " ", "b", "e", "l", "l", "s">>,
      price |-> P(800, 2500, 7000)],
     [key |-> <<"t", "r", "a", "d", "i", "t", "i", "o", "n", "a", "l", " ", "r", "u", "g">>,
      price |-> P(3000, 10000, 30000)],
     [key |-> <<"e", "t", "h", "n", "i", "c", " ", "w", "a", "l", "l", " ", "a", "r", "t">>,
      price |-> P(2000, 6000, 18000)],
     [key |-> <<"w", "a", "l", "l", " ", "a", "r", "t">>,
      price |-> P(1500, 5000, 15000)],
     [key |-> <<"c", "e", "n", "t", "e", "r", "p", "i", "e", "c", "e">>,
      price |-> P(1000, 3000, 9000)],
     [key |-> <<"w", "a", "l", "l", " ", "s", "h", "e", "l", "v", "e", "s">>,
      price |-> P(3000, 8000, 20000)],
     [key |-> <<"t", "o", "y", " ", "s", "t", "o", "r", "a", "g", "e">>,
      price |-> P(4000, 10000, 25000)],
     [key |-> <<"p", "l", "a", "y", " ", "t", "a", "b", "l", "e">>,
      price |-> P(5000, 12000, 28000)],
     [key |-> <<"b", "e", "a", "n", " ", "b", "a", "g", "s">>,
      price |-> P(2000, 5000, 12000)],
     [key |-> <<"c", "o", "a", "t", " ", "r", "a", "c", "k">>,
      price |-> P(2000, 5000, 12000)]
  >>]

\* self.furniture_prices
furniture_prices == estimator.furniture_prices

Keys == 1..Len(furniture_prices)

\* `item_lower in self.furniture_prices`
InCatalog(item_lower) == \E i \in Keys : furniture_prices[i].key = item_lower

\* self.furniture_prices[item_lower][budget_level]
CatalogPrice(item_lower, level) ==
  furniture_prices[CHOOSE i \in Keys :
                     furniture_prices[i].key = item_lower].price[level]

\* the condition of the partial-match loop
PartialMatch(key, item_lower) ==
  IsSubstr(key, item_lower) \/ IsSubstr(item_lower, key)

\* the keys the partial-match loop would accept
PartialKeys(item_lower) ==
  {i \in Keys : PartialMatch(furniture_prices[i].key, item_lower)}

\* the key at which the partial-match loop breaks
FirstPartialKey(item_lower) ==
  CHOOSE i \in PartialKeys(item_lower) :
    \A j \in PartialKeys(item_lower) : i <= j

\* variant: the premium default is missing
DefaultCost_NoPremium(level) ==
  IF level = "budget" THEN 5000 ELSE 12000

\* default price for unknown items
DefaultCost(level) ==
  IF level = "budget" THEN 5000
  ELSE IF level = "mid-range" THEN 12000 ELSE 30000

\* variant: the catalog is only scanned for partial matches, without the
\* exact lookup first
ItemCost_ScanOnly(item, level) ==
  LET item_lower == Strip(Lower(item))
  IN  IF PartialKeys(item_lower) # {}
        THEN furniture_prices[FirstPartialKey(item_lower)].price[level]
        ELSE DefaultCost(level)

\* the cost the loop body of estimate_cost gives one item
ItemCost(item, level) ==
  LET item_lower == Strip(Lower(item))
  IN  IF InCatalog(item_lower)
        THEN CatalogPrice(item_lower, level)
        ELSE IF PartialKeys(item_lower) # {}
               THEN furniture_prices[FirstPartialKey(item_lower)].price[level]
               ELSE DefaultCost(level)

\* the line item the loop body appends
LineItem(item, level) ==
  [name |-> Title(item), cost |-> ItemCost(item, level), quantity |-> 1]

\* variant: an unknown level falls back to the cheapest tier
CoerceLevel_ToBudget(level) ==
  IF level \in BudgetLevels THEN level ELSE "budget"

\* variant: the level is used as given
CoerceLevel_Unchecked(level) == level

\* budget_level after the membership test at the head of estimate_cost
CoerceLevel(level) == IF level \in BudgetLevels THEN level ELSE "mid-range"

RECURSIVE CostLoop_MergeDuplicates(_, _, _, _)
\* variant: an item whose line is already present raises that line's quantity
\* instead of adding a line
CostLoop_MergeDuplicates(items, level, k, acc) ==
  IF k > Len(items)
    THEN acc
    ELSE LET line == LineItem(items[k], level)
             lines == acc.items_with_costs
             same == {i \in 1..Len(lines) : lines[i].name = line.name}
             at == CHOOSE i \in same : TRUE
         IN  CostLoop_MergeDuplicates(items, level, k + 1,
               [items_with_costs |->
                  IF same = {}
                    THEN Append(lines, line)
                    ELSE [lines EXCEPT ![at].quantity = @ + 1],
                subtotal |-> acc.subtotal + line.cost])

RECURSIVE CostLoop(_, _, _, _)
\* the for loop of estimate_cost: items_with_costs and subtotal after the
\* items from position k on have been handled
CostLoop(items, level, k, acc) ==
  IF k > Len(items)
    THEN acc
    ELSE LET line == LineItem(items[k], level)
         IN  CostLoop(items, level, k + 1,
                      [items_with_costs |-> Append(acc.items_with_costs, line),
                       subtotal |-> acc.subtotal + line.cost])

\* variant: a rate of 0.15
TimesInstallationRate_WrongRate(subtotal) ==
  [tenths |-> (3 * subtotal) \div 2, exact |-> subtotal % 20 = 0]

\* subtotal * self.installation_rate, an IEEE double product of an int and
\* 0.10.  The double 0.10 is (1/10)(1 + 2^-54), so for subtotal = 10 m below
\* 2^53 the product rounds to the integer m, and for any other subtotal the
\* product is a double that differs from subtotal/10.  A float is recorded as
\* the number of tenths it stands for and whether it is that number exactly.
TimesInstallationRate(subtotal) ==
  [tenths |-> subtotal, exact |-> subtotal % 10 = 0]

\* subtotal + installation: an int plus a double; exact when the double is an
\* exact integer
PlusInstallation(subtotal, installation) ==
  [tenths |-> 10 * subtotal + installation.tenths,
   exact |-> installation.exact]

\* estimate_cost ends in a KeyError: the subscript [budget_level] of lines 118
\* and 130 is applied, for an item with an exact or a partial key, to a price
\* entry that has no such level
EstimateRaises(items, level_arg) ==
  LET level == CoerceLevel(level_arg)
  IN  \E i \in 1..Len(items) :
        LET item_lower == Strip(Lower(items[i]))
        IN  \/ /\ InCatalog(item_lower)
               /\ \E k \in Keys :
                    /\ furniture_prices[k].key = item_lower
                    /\ level \notin DOMAIN furniture_prices[k].price
            \/ /\ ~InCatalog(item_lower)
               /\ PartialKeys(item_lower) # {}
               /\ level \notin
                    DOMAIN furniture_prices[FirstPartialKey(item_lower)].price

\* variant: nothing to estimate returns None
estimate_cost_NoneWhenEmpty(items, level_arg) ==
  LET level == CoerceLevel(level_arg)
      loop == CostLoop(items, level, 1,
                       [items_with_costs |-> <<>>, subtotal |-> 0])
      installation == TimesInstallationRate(loop.subtotal)
  IN  IF items = <<>>
        THEN None
        ELSE [items |-> loop.items_with_costs,
              subtotal |-> loop.subtotal,
              installation |-> installation,
              total |-> PlusInstallation(loop.subtotal, installation),
              currency |-> "INR",
              budget_level |-> level]

estimate_cost(items, level_arg) ==
  LET level == CoerceLevel(level_arg)
      loop == CostLoop(items, level, 1,
                       [items_with_costs |-> <<>>, subtotal |-> 0])
      installation == TimesInstallationRate(loop.subtotal)
  IN  [items |-> loop.items_with_costs,
       subtotal |-> loop.subtotal,
       installation |-> installation,
       total |-> PlusInstallation(loop.subtotal, installation),
       currency |-> "INR",
       budget_level |-> level]

\* variant: the price found for a name that is no key is stored under that
\* name, for all three levels
EstimatorAfterItem_Memoizes(item, level) ==
  LET item_lower == Strip(Lower(item))
      cost == ItemCost(item, level)
  IN  [furniture_prices |->
         IF InCatalog(item_lower)
           THEN furniture_prices
           ELSE Append(furniture_prices,
                       [key |-> item_lower, price |-> P(cost, cost, cost)])]

\* the estimator after one pass of the for loop (lines 113-148): the pass
\* reads self.furniture_prices and appends to the local items_with_costs
EstimatorAfterItem(item, level) ==
  [furniture_prices |-> furniture_prices]

\* the estimator after estimate_cost(items, level_arg): lines 95-160 read
\* self.furniture_prices and self.installation_rate and build the returned
\* dict from new lists; nothing is assigned to or through self
EstimatorAfterEstimate(items, level_arg) ==
  [furniture_prices |-> furniture_prices]

-----------------------------------------------------------------------------
(* InteriorSuggestionEngine                                                *)

\* InteriorSuggestionEngine(): self.room_furniture and self.styles
InteriorSuggestionEngine ==
  [room_furniture |-> (
  "living_room" :>
     [essential |-> <<<<"s", "o", "f", "a">>,
                      <<"c", "o", "f", "f", "e", "e", " ", "t", "a", "b", "l", "e">>,
                      <<"t", "v", " ", "s", "t", "a", "n", "d">>>>,
      common |-> <<<<"a", "r", "m", "c", "h", "a", "i", "r">>,
                   <<"s", "i", "d", "e", " ", "t", "a", "b", "l", "e">>,
                   <<"f", "l", "o", "o", "r", " ", "l", "a", "m", "p">>,
                   <<"r", "u", "g">>,
                   <<"b", "o", "o", "k", "s", "h", "e", "l", "f">>>>,
      luxury |-> <<<<"o", "t", "t", "o", "m", "a", "n">>,
                   <<"c", "o", "n", "s", "o", "l", "e", " ", "t", "a", "b", "l", "e">>,
                   <<"a", "c", "c", "e", "n", "t", " ", "c", "h", "a", "i", "r">>>>]
  @@
  "bedroom" :>
     [essential |-> <<<<"b", "e", "d">>,
                      <<"n", "i", "g", "h", "t", "s", "t", "a", "n", "d">>,
                      <<"w", "a", "r", "d", "r", "o", "b", "e">>>>,
      common |-> <<<<"d", "r", "e", "s", "s", "e", "r">>,
                   <<"b", "e", "d", "s", "i", "d", "e", " ", "l", "a", "m", "p">>,
                   <<"r", "u", "g">>,
                   <<"m", "i", "r", "r", "o", "r">>>>,
      luxury |-> <<<<"v", "a", "n", "i", "t", "y">>,
                   <<"r", "e", "a", "d", "i", "n", "g", " ", "c", "h", "a", "i", "r">>,
                   <<"b", "e", "n", "c", "h">>>>]
  @@
  "kitchen" :>
     [essential |-> <<<<"d", "i", "n", "i", "n", "g", " ", "t", "a", "b", "l", "e">>,
                      <<"c", "h", "a", "i", "r", "s">>>>,
      common |-> <<<<"b", "a", "r", " ", "s", "t", "o", "o", "l", "s">>,
                   <<"p", "e", "n", "d", "a", "n", "t", " ", "l", "i", "g", "h", "t", "s">>,
                   <<"k", "i", "t", "c", "h", "e", "n", " ", "i", "s", "l", "a", "n", "d">>>>,
      luxury |-> <<<<"w", "i", "n", "e", " ", "r", "a", "c", "k">>,
                   <<"b", "a", "r", " ", "c", "a", "r", "t">>>>]
  @@
  "dining_room" :>
     [essential |-> <<<<"d", "i", "n", "i", "n", "g", " ", "t", "a", "b", "l", "e">>,
                      <<"d", "i", "n", "i", "n", "g", " ", "c", "h", "a", "i", "r", "s">>>>,
      common |-> <<<<"s", "i", "d", "e", "b", "o", "a", "r", "d">>,
                   <<"p", "e", "n", "d", "a", "n", "t", " ", "l", "i", "g", "h", "t">>,
                   <<"c", "e", "n", "t", "e", "r", "p", "i", "e", "c", "e">>,
                   <<"r", "u", "g">>>>,
      luxury |-> <<<<"c", "h", "i", "n", "a", " ", "c", "a", "b", "i", "n", "e", "t">>,
                   <<"b", "a", "r", " ", "c", "a", "r", "t">>,
                   <<"w", "a", "l", "l", " ", "a", "r", "t">>>>]
  @@
  "bathroom" :>
     [essential |-> <<<<"v", "a", "n", "i", "t", "y">>,
                      <<"m", "i", "r", "r", "o", "r">>>>,
      common |-> <<<<"s", "t", "o", "r", "a", "g", "e", " ", "c", "a", "b", "i", "n", "e", "t">>,
                   <<"t", "o", "w", "e", "l", " ", "r", "a", "c", "k">>,
                   <<"b", "a", "t", "h", " ", "m", "a", "t">>>>,
      luxury |-> <<<<"d", "e", "c", "o", "r", "a", "t", "i", "v", "e", " ", "s", "h", "e", "l", "f">>,
                   <<"p", "l", "a", "n", "t", " ", "s", "t", "a", "n", "d">>>>]
  @@
  "office" :>
     [essential |-> <<<<"d", "e", "s", "k">>,
                      <<"o", "f", "f", "i", "c", "e", " ", "c", "h", "a", "i", "r">>>>,
      common |-> <<<<"b", "o", "o", "k", "s", "h", "e", "l", "f">>,
                   <<"d", "e", "s", "k", " ", "l", "a", "m", "p">>,
                   <<"f", "i", "l", "i", "n", "g", " ", "c", "a", "b", "i", "n", "e", "t">>,
                   <<"r", "u", "g">>>>,
      luxury |-> <<<<"c", "r", "e", "d", "e", "n", "z", "a">>,
                   <<"r", "e", "a", "d", "i", "n", "g", " ", "c", "h", "a", "i", "r">>,
                   <<"w", "a", "l", "l", " ", "s", "h", "e", "l", "v", "e", "s">>>>]),
\* the keywords of self.styles; colors and materials are never read
   styles |->
  <<
     [style |-> "modern",
      keywords |-> <<<<"m", "o", "d", "e", "r", "n">>,
                     <<"c", "o", "n", "t", "e", "m", "p", "o", "r", "a", "r", "y">>,
                     <<"m", "i", "n", "i", "m", "a", "l", "i", "s", "t">>>>],
     [style |-> "indian",
      keywords |-> <<<<"t", "r", "a", "d", "i", "t", "i", "o", "n", "a", "l">>,
                     <<"e", "t", "h", "n", "i", "c">>,
                     <<"c", "a", "r", "v", "e", "d">>,
                     <<"o", "r", "n", "a", "t", "e">>>>],
     [style |-> "minimalist",
      keywords |-> <<<<"s", "i", "m", "p", "l", "e">>,
                     <<"c", "l", "e", "a", "n">>,
                     <<"m", "i", "n", "i", "m", "a", "l">>,
                     <<"f", "u", "n", "c", "t", "i", "o", "n", "a", "l">>>>],
     [style |-> "scandinavian",
      keywords |-> <<<<"l", "i", "g", "h", "t">>,
                     <<"c", "o", "z", "y">>,
                     <<"n", "a", "t", "u", "r", "a", "l">>,
                     <<"s", "i", "m", "p", "l", "e">>>>],
     [style |-> "italian",
      keywords |-> <<<<"e", "l", "e", "g", "a", "n", "t">>,
                     <<"s", "o", "p", "h", "i", "s", "t", "i", "c", "a", "t", "e", "d">>,
                     <<"l", "u", "x", "u", "r", "i", "o", "u", "s">>>>]
  >>]

\* self.room_furniture
room_furniture == engine.room_furniture

\* self.styles
styles == engine.styles

\* room_indicators of _identify_room_type, in declaration order
room_indicators ==
  <<
     [room_type |-> "bedroom",
      indicators |-> <<<<"b", "e", "d">>,
                       <<"n", "i", "g", "h", "t", "s", "t", "a", "n", "d">>,
                       <<"d", "r", "e", "s", "s", "e", "r">>,
                       <<"w", "a", "r", "d", "r", "o", "b", "e">>>>],
     [room_type |-> "living_room",
      indicators |-> <<<<"s", "o", "f", "a">>,
                       <<"t", "v", " ", "s", "t", "a", "n", "d">>,
                       <<"c", "o", "f", "f", "e", "e", " ", "t", "a", "b", "l", "e">>,
                       <<"a", "r", "m", "c", "h", "a", "i", "r">>>>],
     [room_type |-> "kitchen",
      indicators |-> <<<<"s", "t", "o", "v", "e">>,
                       <<"r", "e", "f", "r", "i", "g", "e", "r", "a", "t", "o", "r">>,
                       <<"s", "i", "n", "k">>,
                       <<"k", "i", "t", "c", "h", "e", "n", " ", "i", "s", "l", "a", "n", "d">>>>],
     [room_type |-> "dining_room",
      indicators |-> <<<<"d", "i", "n", "i", "n", "g", " ", "t", "a", "b", "l", "e">>,
                       <<"d", "i", "n", "i", "n", "g", " ", "c", "h", "a", "i", "r">>,
                       <<"s", "i", "d", "e", "b", "o", "a", "r", "d">>>>],
     [room_type |-> "bathroom",
      indicators |-> <<<<"t", "o", "i", "l", "e", "t">>,
                       <<"s", "i", "n", "k">>,
                       <<"b", "a", "t", "h", "t", "u", "b">>,
                       <<"s", "h", "o", "w", "e", "r">>>>],
     [room_type |-> "office",
      indicators |-> <<<<"d", "e", "s", "k">>,
                       <<"o", "f", "f", "i", "c", "e", " ", "c", "h", "a", "i", "r">>,
                       <<"f", "i", "l", "i", "n", "g", " ", "c", "a", "b", "i", "n", "e", "t">>,
                       <<"b", "o", "o", "k", "s", "h", "e", "l", "f">>>>]
  >>

\* room_tips of _suggest_layout_improvements
room_tips ==
  "living_room" :>
     <<"Arrange seating to encourage conversation",
       "Place TV at comfortable viewing distance",
       "Use area rug to define seating area">>
  @@
  "bedroom" :>
     <<"Position bed as focal point",
       "Ensure adequate lighting with bedside lamps",
       "Create symmetry with matching nightstands">>
  @@
  "kitchen" :>
     <<"Maintain work triangle between stove, sink, and fridge",
       "Ensure adequate counter space for prep work",
       "Add task lighting above work areas">>
  @@
  "dining_room" :>
     <<"Center dining table in room",
       "Allow 36 inches clearance around table",
       "Hang pendant light 30-36 inches above table">>
  @@
  "office" :>
     <<"Position desk near natural light",
       "Ensure ergonomic chair placement",
       "Organize with adequate storage">>
  @@
  "bathroom" :>
     <<"Maximize storage with cabinets and shelves",
       "Ensure proper ventilation",
       "Use water-resistant materials">>

\* the default of room_tips.get
generic_tips ==
  <<"Ensure good traffic flow",
    "Balance furniture placement",
    "Use appropriate lighting">>

\* variant: the slice keeps one element too many
Take_OneMore(s, n) == SubSeq(s, 1, IF Len(s) < n + 1 THEN Len(s) ELSE n + 1)

\* the slice s[:n]
Take(s, n) == SubSeq(s, 1, IF Len(s) < n THEN Len(s) ELSE n)

\* `x in list`
InList(x, list) == \E i \in 1..Len(list) : list[i] = x

\* any(w in text for w in words)
ContainsAny(text, words) == \E i \in 1..Len(words) : IsSubstr(words[i], text)

\* sum(1 for item in detected if any(ind in item.lower() for ind in words))
KeywordScore(detected, words) ==
  Cardinality({i \in 1..Len(detected) : ContainsAny(Lower(detected[i]), words)})

\* variant: the last entry that reaches the highest score
FirstMax_LastWins(scores) ==
  LET positive == {i \in 1..Len(scores) : scores[i] > 0}
  IN  CHOOSE i \in positive :
        \A j \in positive :
          scores[j] < scores[i] \/ (scores[j] = scores[i] /\ j <= i)

\* max(scores.items(), key=lambda x: x[1])[0] over the entries with a positive
\* score, kept in table order: the first entry that reaches the highest score
FirstMax(scores) ==
  LET positive == {i \in 1..Len(scores) : scores[i] > 0}
  IN  CHOOSE i \in positive :
        \A j \in positive :
          scores[j] < scores[i] \/ (scores[j] = scores[i] /\ i <= j)

_identify_room_type(detected) ==
  LET scores == [i \in 1..Len(room_indicators) |->
                   KeywordScore(detected, room_indicators[i].indicators)]
  IN  IF \E i \in 1..Len(scores) : scores[i] > 0
        THEN room_indicators[FirstMax(scores)].room_type
        ELSE "living_room"

\* variant: a tie between styles goes to the style declared last
_identify_style_LastWins(detected) ==
  LET scores == [i \in 1..Len(styles) |->
                   KeywordScore(detected, styles[i].keywords)]
  IN  IF \E i \in 1..Len(scores) : scores[i] > 0
        THEN styles[FirstMax_LastWins(scores)].style
        ELSE "modern"

_identify_style(detected) ==
  LET scores == [i \in 1..Len(styles) |->
                   KeywordScore(detected, styles[i].keywords)]
  IN  IF \E i \in 1..Len(scores) : scores[i] > 0
        THEN styles[FirstMax(scores)].style
        ELSE "modern"

\* detected_lower = [obj.lower() for obj in detected_objects]
DetectedLower(detected) == [i \in 1..Len(detected) |-> Lower(detected[i])]

\* variant: only `furniture in det` is tested
InRoom_OneWay(furniture, detected_lower) ==
  \E i \in 1..Len(detected_lower) : IsSubstr(furniture, detected_lower[i])

\* any(furniture in det or det in furniture for det in detected_lower)
InRoom(furniture, detected_lower) ==
  \E i \in 1..Len(detected_lower) :
    IsSubstr(furniture, detected_lower[i]) \/ IsSubstr(detected_lower[i], furniture)

_find_missing_essentials(detected, room_type) ==
  IF room_type \notin DOMAIN room_furniture
    THEN <<>>
    ELSE LET detected_lower == DetectedLower(detected)
         IN  SelectSeq(room_furniture[room_type].essential,
                       LAMBDA e : ~InRoom(e, detected_lower))

\* variant: the cap is put on the whole list
Prioritize_CapWhole(essentials, common, luxury) ==
  Take(essentials \o common \o luxury, 5)

\* the truncation of the three buckets in the return of _suggest_additions
Prioritize(essentials, common, luxury) ==
  essentials \o Take(common, 3) \o Take(luxury, 2)

\* room_type after the membership test at the head of _suggest_additions
RulesKey(room_type_arg) ==
  IF room_type_arg \notin DOMAIN room_furniture
    THEN "living_room" ELSE room_type_arg

\* variant: a room type the table does not have gets no suggestions, as in
\* _find_missing_essentials
_suggest_additions_NoFallback(detected, room_type_arg) ==
  IF room_type_arg \notin DOMAIN room_furniture
    THEN <<>>
    ELSE LET rules == room_furniture[room_type_arg]
             all_furniture == rules.essential \o rules.common \o rules.luxury
             detected_lower == DetectedLower(detected)
             suggestions == SelectSeq(all_furniture,
                                      LAMBDA f : ~InRoom(f, detected_lower))
         IN  Prioritize(
               SelectSeq(suggestions, LAMBDA s : InList(s, rules.essential)),
               SelectSeq(suggestions, LAMBDA s : InList(s, rules.common)),
               SelectSeq(suggestions, LAMBDA s : InList(s, rules.luxury)))

_suggest_additions(detected, room_type_arg) ==
  LET room_type == RulesKey(room_type_arg)
      rules == room_furniture[room_type]
      all_furniture == rules.essential \o rules.common \o rules.luxury
      detected_lower == DetectedLower(detected)
      suggestions == SelectSeq(all_furniture,
                               LAMBDA f : ~InRoom(f, detected_lower))
      essentials == SelectSeq(suggestions, LAMBDA s : InList(s, rules.essential))
      common == SelectSeq(suggestions, LAMBDA s : InList(s, rules.common))
      luxury == SelectSeq(suggestions, LAMBDA s : InList(s, rules.luxury))
  IN  Prioritize(essentials, common, luxury)

_suggest_layout_improvements(detected, room_type) ==
  Take(IF room_type \in DOMAIN room_tips
         THEN room_tips[room_type] ELSE generic_tips, 3)

\* `if force_room_type:` : neither None nor the empty string
Truthy(forced) == forced # <<>> /\ forced[1] # ""

\* variant: a forced room type outside the rules table is ignored
ResolveRoomType_Validated(detected, forced) ==
  IF Truthy(forced) /\ forced[1] \in DOMAIN room_furniture
    THEN forced[1]
    ELSE _identify_room_type(detected)

\* room_type as the head of analyze_room resolves it
ResolveRoomType(detected, forced) ==
  IF Truthy(forced) THEN forced[1] ELSE _identify_room_type(detected)

\* analyze_room ends in a KeyError: self.room_furniture[room_type] of lines
\* 180-182 is read with a key the table does not have (the read of line 161
\* comes after the return of line 159)
AnalyzeRaises(detected, forced) ==
  RulesKey(ResolveRoomType(detected, forced)) \notin DOMAIN room_furniture

analyze_room(detected, forced) ==
  LET room_type == ResolveRoomType(detected, forced)
  IN  [room_type |-> room_type,
       current_style |-> _identify_style(detected),
       detected_count |-> Len(detected),
       suggestions |->
         [missing_essentials |-> _find_missing_essentials(detected, room_type),
          add_items |-> _suggest_additions(detected, room_type),
          layout_tips |-> _suggest_layout_improvements(detected, room_type)]]

\* variant: the essentials reported missing are taken out of the rules
EngineAfterAnalyze_ConsumesMissing(detected, forced) ==
  LET room_type == RulesKey(ResolveRoomType(detected, forced))
      missing == _find_missing_essentials(detected, room_type)
  IN  [room_furniture |->
         [room_furniture EXCEPT
            ![room_type].essential =
               SelectSeq(@, LAMBDA e : ~InList(e, missing))],
       styles |-> styles]

\* the engine after analyze_room(detected, forced): lines 73-199 read
\* self.room_furniture and self.styles and return lists built by append and
\* by +; nothing is assigned to or through self
EngineAfterAnalyze(detected, forced) ==
  [room_furniture |-> room_furniture, styles |-> styles]

-----------------------------------------------------------------------------
(* InterioAI (interioai_complete.py)                                       *)

\* The same Python string in its two representations: the TLA+ string used
\* where it is only compared, the character sequence used where it is
\* lower-cased or searched.
Names ==
  <<[str |-> "living_room",
     chars |-> <<"l", "i", "v", "i", "n", "g", "_", "r", "o", "o", "m">>],
    [str |-> "bedroom",
     chars |-> <<"b", "e", "d", "r", "o", "o", "m">>],
    [str |-> "kitchen",
     chars |-> <<"k", "i", "t", "c", "h", "e", "n">>],
    [str |-> "dining_room",
     chars |-> <<"d", "i", "n", "i", "n", "g", "_", "r", "o", "o", "m">>],
    [str |-> "bathroom",
     chars |-> <<"b", "a", "t", "h", "r", "o", "o", "m">>],
    [str |-> "office",
     chars |-> <<"o", "f", "f", "i", "c", "e">>],
    [str |-> "living_hall",
     chars |-> <<"l", "i", "v", "i", "n", "g", "_", "h", "a", "l", "l">>],
    [str |-> "pooja_room",
     chars |-> <<"p", "o", "o", "j", "a", "_", "r", "o", "o", "m">>],
    [str |-> "study_room",
     chars |-> <<"s", "t", "u", "d", "y", "_", "r", "o", "o", "m">>],
    [str |-> "garage",
     chars |-> <<"g", "a", "r", "a", "g", "e">>],
    [str |-> "modern",
     chars |-> <<"m", "o", "d", "e", "r", "n">>],
    [str |-> "indian",
     chars |-> <<"i", "n", "d", "i", "a", "n">>],
    [str |-> "minimalist",
     chars |-> <<"m", "i", "n", "i", "m", "a", "l", "i", "s", "t">>],
    [str |-> "scandinavian",
     chars |-> <<"s", "c", "a", "n", "d", "i", "n", "a", "v", "i", "a", "n">>],
    [str |-> "italian",
     chars |-> <<"i", "t", "a", "l", "i", "a", "n">>],
    [str |-> "Modern",
     chars |-> <<"M", "o", "d", "e", "r", "n">>],
    [str |-> "Indian",
     chars |-> <<"I", "n", "d", "i", "a", "n">>]>>

Intern(chars) == Names[CHOOSE i \in 1..Len(Names) : Names[i].chars = chars].str

Chars(str) == Names[CHOOSE i \in 1..Len(Names) : Names[i].str = str].chars

\* InterioAI.USD_TO_INR = 83.0
USD_TO_INR == 83

\* str.replace(' ', '_')
ReplaceSpaces(s) == [i \in 1..Len(s) |-> IF s[i] = " " THEN "_" ELSE s[i]]

\* truth value of an optional string argument: neither None nor ''
Given(arg) == arg # <<>> /\ arg[1] # <<>>

\* room_type_map of analyze_room, in declaration order
room_type_map ==
  <<[label |-> <<"L", "i", "v", "i", "n", "g", " ", "H", "a", "l", "l">>,
     room_type |-> "living_room"],
    [label |-> <<"L", "i", "v", "i", "n", "g", " ", "R", "o", "o", "m">>,
     room_type |-> "living_room"],
    [label |-> <<"B", "e", "d", "r", "o", "o", "m">>,
     room_type |-> "bedroom"],
    [label |-> <<"K", "i", "t", "c", "h", "e", "n">>,
     room_type |-> "kitchen"],
    [label |-> <<"B", "a", "t", "h", "r", "o", "o", "m">>,
     room_type |-> "bathroom"],
    [label |-> <<"P", "o", "o", "j", "a", " ", "R", "o", "o", "m">>,
     room_type |-> "living_room"],
    [label |-> <<"D", "i", "n", "i", "n", "g", " ", "R", "o", "o", "m">>,
     room_type |-> "dining_room"],
    [label |-> <<"O", "f", "f", "i", "c", "e">>,
     room_type |-> "office"],
    [label |-> <<"S", "t", "u", "d", "y", " ", "R", "o", "o", "m">>,
     room_type |-> "office"]>>

\* mapped_room_type: room_type_map.get(user_room_type, 'living_room'), or None
MappedRoomType(room_label) ==
  IF Given(room_label)
    THEN IF \E i \in 1..Len(room_type_map) :
              room_type_map[i].label = room_label[1]
           THEN <<room_type_map[CHOOSE i \in 1..Len(room_type_map) :
                                  room_type_map[i].label = room_label[1]].room_type>>
           ELSE <<"living_room">>
    ELSE <<>>

\* furniture_sets of _get_essential_furniture
furniture_sets ==
  <<[key |-> <<"b", "e", "d", "r", "o", "o", "m">>,
     items |-> <<<<"b", "e", "d">>,
                <<"n", "i", "g", "h", "t", "s", "t", "a", "n", "d">>,
                <<"d", "r", "e", "s", "s", "e", "r">>,
                <<"w", "a", "r", "d", "r", "o", "b", "e">>,
                <<"r", "e", "a", "d", "i", "n", "g", " ", "l", "a", "m", "p">>,
                <<"r", "u", "g">>>>],
    [key |-> <<"k", "i", "t", "c", "h", "e", "n">>,
     items |-> <<<<"d", "i", "n", "i", "n", "g", " ", "t", "a", "b", "l", "e">>,
                <<"c", "h", "a", "i", "r", "s">>,
                <<"b", "a", "r", " ", "s", "t", "o", "o", "l", "s">>,
                <<"p", "e", "n", "d", "a", "n", "t", " ", "l", "i", "g", "h", "t", "s">>,
                <<"k", "i", "t", "c", "h", "e", "n", " ", "i", "s", "l", "a", "n", "d">>>>],
    [key |-> <<"l", "i", "v", "i", "n", "g", "_", "r", "o", "o", "m">>,
     items |-> <<<<"s", "o", "f", "a">>,
                <<"c", "o", "f", "f", "e", "e", " ", "t", "a", "b", "l", "e">>,
                <<"a", "r", "m", "c", "h", "a", "i", "r">>,
                <<"T", "V", " ", "s", "t", "a", "n", "d">>,
                <<"s", "i", "d", "e", " ", "t", "a", "b", "l", "e">>,
                <<"f", "l", "o", "o", "r", " ", "l", "a", "m", "p">>>>],
    [key |-> <<"l", "i", "v", "i", "n", "g", "_", "h", "a", "l", "l">>,
     items |-> <<<<"s", "o", "f", "a">>,
                <<"c", "o", "f", "f", "e", "e", " ", "t", "a", "b", "l", "e">>,
                <<"a", "r", "m", "c", "h", "a", "i", "r">>,
                <<"T", "V", " ", "s", "t", "a", "n", "d">>,
                <<"s", "i", "d", "e", " ", "t", "a", "b", "l", "e">>,
                <<"f", "l", "o", "o", "r", " ", "l", "a", "m", "p">>>>],
    [key |-> <<"b", "a", "t", "h", "r", "o", "o", "m">>,
     items |-> <<<<"v", "a", "n", "i", "t", "y">>,
                <<"m", "i", "r", "r", "o", "r">>,
                <<"s", "t", "o", "r", "a", "g", "e", " ", "c", "a", "b", "i", "n", "e", "t">>,
                <<"t", "o", "w", "e", "l", " ", "r", "a", "c", "k">>,
                <<"b", "a", "t", "h", " ", "m", "a", "t">>>>],
    [key |-> <<"p", "o", "o", "j", "a", "_", "r", "o", "o", "m">>,
     items |-> <<<<"p", "u", "j", "a", " ", "s", "h", "e", "l", "f">>,
                <<"d", "e", "i", "t", "y", " ", "i", "d", "o", "l", "s">>,
                <<"d", "i", "y", "a", " ", "s", "t", "a", "n", "d">>,
                <<"p", "r", "a", "y", "e", "r", " ", "m", "a", "t">>,
                <<"i", "n", "c", "e", "n", "s", "e", " ", "h", "o", "l", "d", "e", "r">>>>],
    [key |-> <<"d", "i", "n", "i", "n", "g", "_", "r", "o", "o", "m">>,
     items |-> <<<<"d", "i", "n", "i", "n", "g", " ", "t", "a", "b", "l", "e">>,
                <<"d", "i", "n", "i", "n", "g", " ", "c", "h", "a", "i", "r", "s">>,
                <<"s", "i", "d", "e", "b", "o", "a", "r", "d">>,
                <<"p", "e", "n", "d", "a", "n", "t", " ", "l", "i", "g", "h", "t">>,
                <<"c", "e", "n", "t", "e", "r", "p", "i", "e", "c", "e">>>>],
    [key |-> <<"o", "f", "f", "i", "c", "e">>,
     items |-> <<<<"d", "e", "s", "k">>,
                <<"o", "f", "f", "i", "c", "e", " ", "c", "h", "a", "i", "r">>,
                <<"b", "o", "o", "k", "s", "h", "e", "l", "f">>,
                <<"d", "e", "s", "k", " ", "l", "a", "m", "p">>,
                <<"f", "i", "l", "i", "n", "g", " ", "c", "a", "b", "i", "n", "e", "t">>>>],
    [key |-> <<"s", "t", "u", "d", "y", "_", "r", "o", "o", "m">>,
     items |-> <<<<"s", "t", "u", "d", "y", " ", "d", "e", "s", "k">>,
                <<"c", "h", "a", "i", "r">>,
                <<"b", "o", "o", "k", "s", "h", "e", "l", "f">>,
                <<"d", "e", "s", "k", " ", "l", "a", "m", "p">>,
                <<"s", "t", "o", "r", "a", "g", "e", " ", "c", "a", "b", "i", "n", "e", "t">>>>]>>

\* furniture_sets.get(room_type.lower(), furniture_sets['living_room'])
BaseFurniture(room_type) ==
  LET key == Lower(room_type)
      hit == {i \in 1..Len(furniture_sets) : furniture_sets[i].key = key}
      living == CHOOSE i \in 1..Len(furniture_sets) :
                  furniture_sets[i].key = <<"l", "i", "v", "i", "n", "g", "_", "r", "o", "o", "m">>
  IN  IF hit # {}
        THEN furniture_sets[CHOOSE i \in hit : TRUE].items
        ELSE furniture_sets[living].items

_get_essential_furniture(room_type, style) ==
  LET base_furniture == BaseFurniture(room_type)
      styled ==
        IF Lower(style) = <<"i", "n", "d", "i", "a", "n">>
          THEN IF IsSubstr(<<"p", "o", "o", "j", "a">>, Lower(room_type))
                 THEN <<<<"w", "o", "o", "d", "e", "n", " ", "p", "u", "j", "a", " ", "m", "a", "n", "d", "i", "r">>,
                        <<"b", "r", "a", "s", "s", " ", "d", "i", "y", "a">>,
                        <<"p", "r", "a", "y", "e", "r", " ", "b", "e", "l", "l", "s">>,
                        <<"i", "n", "c", "e", "n", "s", "e", " ", "s", "t", "a", "n", "d">>,
                        <<"d", "e", "i", "t", "y", " ", "i", "d", "o", "l", "s">>,
                        <<"p", "r", "a", "y", "e", "r", " ", "m", "a", "t">>>>
                 ELSE Take(base_furniture, 4)
                        \o <<<<"t", "r", "a", "d", "i", "t", "i", "o", "n", "a", "l", " ", "r", "u", "g">>,
                             <<"e", "t", "h", "n", "i", "c", " ", "w", "a", "l", "l", " ", "a", "r", "t">>>>
          ELSE base_furniture
  IN  Take(styled, 6)

\* variant: the starter set is only used for a room without detected objects
FallbackFires_OnlyEmptyRoom(add_items, detected) == Len(detected) = 0

\* variant: the starter set is only used when the engine suggests nothing
FallbackFires_OnlyNoSuggestions(add_items, detected) == add_items = <<>>

\* `not analysis['suggestions']['add_items'] or len(detected_objects) == 0`
FallbackFires(add_items, detected) == add_items = <<>> \/ Len(detected) = 0

\* the arguments `user_room_type or analysis['room_type']` and
\* `user_style or analysis['current_style']`
RoomTypeOrAnalysed(room_label, result) ==
  IF Given(room_label) THEN room_label[1] ELSE Chars(result.room_type)

StyleOrAnalysed(style_label, result) ==
  IF Given(style_label) THEN style_label[1] ELSE Chars(result.current_style)

\* lines 133-148 of analyze_room: the engine's dict after the user's room type
\* and style have been written into it and the starter set has replaced
\* add_items
WithPreferences(result, detected, room_label, style_label) ==
  LET typed == IF Given(room_label)
                 THEN [result EXCEPT
                         !.room_type = Intern(ReplaceSpaces(Lower(room_label[1])))]
                 ELSE result
      styled == IF Given(style_label)
                  THEN [typed EXCEPT !.current_style = Intern(style_label[1])]
                  ELSE typed
  IN  IF FallbackFires(styled.suggestions.add_items, detected)
        THEN [styled EXCEPT
                !.suggestions.add_items =
                   _get_essential_furniture(
                     RoomTypeOrAnalysed(room_label, styled),
                     StyleOrAnalysed(style_label, styled))]
        ELSE styled

\* an int times USD_TO_INR: a double, exact below 2^53
IntTimesUsdToInr(n) == [tenths |-> 10 * USD_TO_INR * n, exact |-> TRUE]

\* a double times USD_TO_INR: exact when the double is an exact integer
FloatTimesUsdToInr(f) == [tenths |-> USD_TO_INR * f.tenths, exact |-> f.exact]

\* variant: the installation is carried over unconverted
_convert_to_inr_SkipsInstallation(breakdown) ==
  IF breakdown = None
    THEN None
    ELSE [items |-> [i \in 1..Len(breakdown.items) |->
                       [name |-> breakdown.items[i].name,
                        cost |-> IntTimesUsdToInr(breakdown.items[i].cost),
                        quantity |-> breakdown.items[i].quantity]],
          subtotal |-> IntTimesUsdToInr(breakdown.subtotal),
          installation |-> breakdown.installation,
          total |-> FloatTimesUsdToInr(breakdown.total)]

_convert_to_inr(breakdown) ==
  IF breakdown = None
    THEN None
    ELSE [items |-> [i \in 1..Len(breakdown.items) |->
                       [name |-> breakdown.items[i].name,
                        cost |-> IntTimesUsdToInr(breakdown.items[i].cost),
                        quantity |-> breakdown.items[i].quantity]],
          subtotal |-> IntTimesUsdToInr(breakdown.subtotal),
          installation |-> FloatTimesUsdToInr(breakdown.installation),
          total |-> FloatTimesUsdToInr(breakdown.total)]

-----------------------------------------------------------------------------
(* Inputs                                                                  *)

\* item names handed to estimate_cost: exact keys in several spellings, names
\* that only match partially, unknown names, the empty name
SampleItems ==
  { <<"s", "o", "f", "a">>,
    <<"C", "o", "f", "f", "e", "e", " ", "T", "a", "b", "l", "e">>,
    <<" ", "b", "e", "d", " ">>,
    <<"c", "h", "a", "i", "r", "s">>,
    <<"c", "h", "a", "i", "r">>,
    <<"t", "a", "b", "l", "e">>,
    <<"a", "c", "c", "e", "n", "t", " ", "c", "h", "a", "i", "r">>,
    <<"p", "i", "a", "n", "o">>,
    <<>>,
    <<"T", "V", " ", "s", "t", "a", "n", "d">> }

\* budget-level strings handed to estimate_cost
SampleLevels ==
  {"budget", "mid-range", "premium", "invalid-tier", "Premium", ""}

ListsUpTo(S, n) == UNION {[1..k -> S] : k \in 0..n}

\* labels handed to analyze_room as detected objects: indicator words, a
\* capitalised label, a label with and without trailing whitespace, a label
\* that scores for two room types, a label with style keywords, the empty
\* label, a label that matches nothing
SampleLabels ==
  { <<"b", "e", "d">>,
    <<"s", "o", "f", "a">>,
    <<"t", "v", " ", "s", "t", "a", "n", "d">>,
    <<"D", "e", "s", "k">>,
    <<"c", "h", "a", "i", "r">>,
    <<"c", "h", "a", "i", "r", " ">>,
    <<"d", "i", "n", "i", "n", "g", " ", "t", "a", "b", "l", "e">>,
    <<"s", "i", "n", "k">>,
    <<"s", "o", "f", "a", " ", "b", "e", "d">>,
    <<>>,
    <<"s", "i", "m", "p", "l", "e", " ", "d", "e", "s", "k">>,
    <<"p", "o", "t", "t", "e", "d", " ", "p", "l", "a", "n", "t">> }

\* force_room_type arguments: None, the empty string, the room types of the
\* rules table, a room type the table does not have
SampleForced ==
  {<<>>, <<"">>, <<"living_room">>, <<"bedroom">>, <<"kitchen">>,
   <<"dining_room">>, <<"bathroom">>, <<"office">>, <<"garage">>}

-----------------------------------------------------------------------------
(* The calls                                                               *)

InitEstimate ==
  /\ pc = "estimate"
  /\ furniture_items \in ListsUpTo(SampleItems, MaxItems)
  /\ budget_level \in SampleLevels
  /\ detected_objects = <<>>
  /\ force_room_type = <<>>

InitAnalyze ==
  /\ pc = "analyze"
  /\ detected_objects \in ListsUpTo(SampleLabels, MaxDetected)
  /\ force_room_type \in SampleForced
  /\ furniture_items = <<>>
  /\ budget_level = "mid-range"

FreshInstances ==
  /\ estimator = CostEstimator
  /\ engine = InteriorSuggestionEngine

NoRepeat ==
  /\ first_result = None
  /\ intervening = 0

NoApp ==
  /\ ai_system = None
  /\ constructed = 0
  /\ workers = <<>>

NoServer ==
  /\ requests = <<>>
  /\ NoApp

NoOrchestrator ==
  /\ user_room_type = <<>>
  /\ user_style = <<>>
  /\ engine_analysis = None
  /\ detector_failed = FALSE
  /\ dimensions = "none"
  /\ design_files = "none"
  /\ edited_image = "none"
  /\ cost_breakdown_inr = None
  /\ calls = <<>>

Init ==
  /\ InitEstimate \/ InitAnalyze
  /\ cost_breakdown = None
  /\ analysis = None
  /\ NoOrchestrator
  /\ FreshInstances
  /\ NoRepeat
  /\ NoServer

EstimateCost ==
  /\ pc = "estimate"
  /\ IF EstimateRaises(furniture_items, budget_level)
       THEN pc' = "raised" /\ cost_breakdown' = None
       ELSE /\ cost_breakdown' = estimate_cost(furniture_items, budget_level)
            /\ pc' = "done"
  /\ estimator' = EstimatorAfterEstimate(furniture_items, budget_level)
  /\ UNCHANGED <<server_vars, furniture_items, budget_level, detected_objects,
                 force_room_type, analysis, orch_vars, engine, repeat_vars>>

AnalyzeRoom ==
  /\ pc = "analyze"
  /\ IF AnalyzeRaises(detected_objects, force_room_type)
       THEN pc' = "raised" /\ analysis' = None
       ELSE /\ analysis' = analyze_room(detected_objects, force_room_type)
            /\ pc' = "done"
  /\ engine' = EngineAfterAnalyze(detected_objects, force_room_type)
  /\ UNCHANGED <<server_vars, furniture_items, budget_level, detected_objects,
                 force_room_type, cost_breakdown, orch_vars, estimator,
                 repeat_vars>>

Next == EstimateCost \/ AnalyzeRoom

Spec == Init /\ [][Next]_vars

-----------------------------------------------------------------------------
(* An orchestrator run: InterioAI.analyze_room                             *)

\* room-type labels handed to the orchestrator: None, the empty string, the
\* labels of room_type_map, a label the map does not have
SampleRoomLabels ==
  { <<>>, <<<<>>>>,
    <<<<"L", "i", "v", "i", "n", "g", " ", "H", "a", "l", "l">>>>,
    <<<<"L", "i", "v", "i", "n", "g", " ", "R", "o", "o", "m">>>>,
    <<<<"B", "e", "d", "r", "o", "o", "m">>>>,
    <<<<"K", "i", "t", "c", "h", "e", "n">>>>,
    <<<<"B", "a", "t", "h", "r", "o", "o", "m">>>>,
    <<<<"P", "o", "o", "j", "a", " ", "R", "o", "o", "m">>>>,
    <<<<"D", "i", "n", "i", "n", "g", " ", "R", "o", "o", "m">>>>,
    <<<<"O", "f", "f", "i", "c", "e">>>>,
    <<<<"S", "t", "u", "d", "y", " ", "R", "o", "o", "m">>>>,
    <<<<"G", "a", "r", "a", "g", "e">>>> }

\* style labels handed to the orchestrator
SampleStyleLabels ==
  { <<>>, <<<<"M", "o", "d", "e", "r", "n">>>>, <<<<"I", "n", "d", "i", "a", "n">>>> }

\* class names the detector reports: furniture the rules know, and a name
\* that is contained in every furniture name (a room where nothing is left
\* to suggest)
SampleClassNames ==
  { <<"b", "e", "d">>,
    <<"s", "o", "f", "a">>,
    <<>> }

\* a kitchen in which the detector finds every item the rules and the
\* starter set name for a kitchen
FurnishedKitchen ==
  << <<"d", "i", "n", "i", "n", "g", " ", "t", "a", "b", "l", "e">>,
     <<"c", "h", "a", "i", "r", "s">>,
     <<"b", "a", "r", " ", "s", "t", "o", "o", "l", "s">>,
     <<"p", "e", "n", "d", "a", "n", "t", " ", "l", "i", "g", "h", "t", "s">>,
     <<"k", "i", "t", "c", "h", "e", "n", " ", "i", "s", "l", "a", "n", "d">>,
     <<"w", "i", "n", "e", " ", "r", "a", "c", "k">>,
     <<"b", "a", "r", " ", "c", "a", "r", "t">> >>

\* the lists of class names the detector returns
SampleDetections ==
  ListsUpTo(SampleClassNames, MaxOrchDetected) \cup {FurnishedKitchen}

InitOrch ==
  /\ pc = "detect"
  /\ user_room_type \in SampleRoomLabels
  /\ user_style \in SampleStyleLabels
  /\ budget_level \in BudgetLevels
  /\ furniture_items = <<>>
  /\ detected_objects = <<>>
  /\ force_room_type = <<>>
  /\ cost_breakdown = None
  /\ analysis = None
  /\ engine_analysis = None
  /\ detector_failed = FALSE
  /\ dimensions = "none"
  /\ design_files = "none"
  /\ edited_image = "none"
  /\ cost_breakdown_inr = None
  /\ calls = <<>>
  /\ FreshInstances
  /\ NoRepeat
  /\ NoServer

\* variant: the costs are calculated before the image is edited
StepAfter_CostBeforeEdit(step) ==
  CASE step = "detect" -> "dimensions"
    [] step = "dimensions" -> "suggest"
    [] step = "suggest" -> "preferences"
    [] step = "preferences" -> "designs"
    [] step = "designs" -> "cost"
    [] step = "cost" -> "edit"
    [] step = "edit" -> "returned"

\* the order of the steps in the body of InterioAI.analyze_room
StepAfter(step) ==
  CASE step = "detect" -> "dimensions"
    [] step = "dimensions" -> "suggest"
    [] step = "suggest" -> "preferences"
    [] step = "preferences" -> "designs"
    [] step = "designs" -> "edit"
    [] step = "edit" -> "cost"
    [] step = "cost" -> "returned"

\* Step 1, _detect_furniture: the class names of the boxes, or [] from the
\* except branch
DetectFurniture ==
  /\ pc = "detect"
  /\ \/ /\ detected_objects' \in SampleDetections
        /\ detector_failed' = FALSE
     \/ /\ detected_objects' = <<>>
        /\ detector_failed' = TRUE
  /\ calls' = Append(calls, "detector")
  /\ pc' = StepAfter(pc)
  /\ UNCHANGED <<server_vars, furniture_items, budget_level, cost_breakdown,
                 force_room_type, analysis, user_room_type, user_style,
                 engine_analysis, dimensions, design_files, edited_image,
                 cost_breakdown_inr, instances, repeat_vars>>

\* Step 2: the dimension estimator is not called when it is switched off or
\* absent; when it is called, dimensions stays None if it returns nothing
\* or raises
EstimateDimensions ==
  /\ pc = "dimensions"
  /\ \/ /\ dimensions' = "none"
        /\ UNCHANGED calls
     \/ /\ dimensions' \in {"none", "estimated"}
        /\ calls' = Append(calls, "dimension_estimator")
  /\ pc' = StepAfter(pc)
  /\ UNCHANGED <<server_vars, furniture_items, budget_level, cost_breakdown,
                 detected_objects, force_room_type, analysis, user_room_type,
                 user_style, engine_analysis, detector_failed, design_files,
                 edited_image, cost_breakdown_inr, instances, repeat_vars>>

\* Step 3, lines 107-131: the engine is called with the mapped room type
GenerateSuggestions ==
  /\ pc = "suggest"
  /\ force_room_type' = MappedRoomType(user_room_type)
  /\ IF AnalyzeRaises(detected_objects, force_room_type')
       THEN pc' = "raised" /\ analysis' = None
       ELSE /\ analysis' = analyze_room(detected_objects, force_room_type')
            /\ pc' = StepAfter(pc)
  /\ engine_analysis' = analysis'
  /\ engine' = EngineAfterAnalyze(detected_objects, force_room_type')
  /\ calls' = Append(calls, "suggestion_engine")
  /\ UNCHANGED <<server_vars, furniture_items, budget_level, cost_breakdown,
                 detected_objects, user_room_type, user_style,
                 detector_failed, dimensions, design_files, edited_image,
                 cost_breakdown_inr, estimator, repeat_vars>>

\* lines 133-148: the user's room type and style, and the starter set
ApplyPreferences ==
  /\ pc = "preferences"
  /\ analysis' = WithPreferences(analysis, detected_objects,
                                 user_room_type, user_style)
  /\ pc' = StepAfter(pc)
  /\ UNCHANGED <<server_vars, furniture_items, budget_level, cost_breakdown,
                 detected_objects, force_room_type, orch_vars,
                 instances, repeat_vars>>

\* Step 4: design_files stays None when generate_design is off or the
\* design generator raises
GenerateDesigns ==
  /\ pc = "designs"
  /\ design_files' \in {"none", "files"}
  /\ pc' = StepAfter(pc)
  /\ UNCHANGED <<server_vars, furniture_items, budget_level, cost_breakdown,
                 detected_objects, force_room_type, analysis, user_room_type,
                 user_style, engine_analysis, detector_failed, dimensions,
                 edited_image, cost_breakdown_inr, calls, instances,
                 repeat_vars>>

\* Step 5: the renderer is not called when edit_image is off or there is
\* nothing to add; when it is called, edited_image stays None if it returns
\* nothing or raises
EditImage ==
  /\ pc = "edit"
  /\ \/ /\ edited_image' = "none"
        /\ UNCHANGED calls
     \/ /\ analysis.suggestions.add_items # <<>>
        /\ edited_image' \in {"none", "edited"}
        /\ calls' = Append(calls, "renderer")
  /\ pc' = StepAfter(pc)
  /\ UNCHANGED <<server_vars, furniture_items, budget_level, cost_breakdown,
                 detected_objects, force_room_type, analysis, user_room_type,
                 user_style, engine_analysis, detector_failed, dimensions,
                 design_files, cost_breakdown_inr, instances, repeat_vars>>

\* Step 6: the suggested items are priced and converted
CalculateCosts ==
  /\ pc = "cost"
  /\ furniture_items' = analysis.suggestions.add_items
  /\ IF furniture_items' # <<>>
       THEN /\ IF EstimateRaises(furniture_items', budget_level)
                 THEN /\ pc' = "raised"
                      /\ UNCHANGED <<cost_breakdown, cost_breakdown_inr>>
                 ELSE /\ cost_breakdown' =
                           estimate_cost(furniture_items', budget_level)
                      /\ cost_breakdown_inr' =
                           _convert_to_inr(cost_breakdown')
                      /\ pc' = StepAfter(pc)
            /\ estimator' =
                 EstimatorAfterEstimate(furniture_items', budget_level)
            /\ calls' = Append(calls, "cost_estimator")
       ELSE /\ cost_breakdown_inr' = None
            /\ pc' = StepAfter(pc)
            /\ UNCHANGED <<cost_breakdown, estimator, calls>>
  /\ UNCHANGED <<server_vars, budget_level, detected_objects,
                 force_room_type, analysis, user_room_type, user_style,
                 engine_analysis, detector_failed, dimensions, design_files,
                 edited_image, engine, repeat_vars>>

NextOrch ==
  \/ DetectFurniture
  \/ EstimateDimensions
  \/ GenerateSuggestions
  \/ ApplyPreferences
  \/ GenerateDesigns
  \/ EditImage
  \/ CalculateCosts

SpecOrch == InitOrch /\ [][NextOrch]_vars

-----------------------------------------------------------------------------
(* The same call made twice on one instance                                *)

InitRepeat ==
  /\ \/ /\ pc = "estimate"
        /\ furniture_items \in ListsUpTo(SampleItems, MaxRepeatLen)
        /\ budget_level \in SampleLevels
        /\ detected_objects = <<>>
        /\ force_room_type = <<>>
     \/ /\ pc = "analyze"
        /\ detected_objects \in ListsUpTo(SampleLabels, MaxRepeatLen)
        /\ force_room_type \in SampleForced
        /\ furniture_items = <<>>
        /\ budget_level = "mid-range"
  /\ cost_breakdown = None
  /\ analysis = None
  /\ NoOrchestrator
  /\ FreshInstances
  /\ NoRepeat
  /\ NoServer

\* item lists and detected lists of the calls made in between
OtherItemLists ==
  { <<>>,
    <<<<"s", "o", "f", "a">>>>,
    <<<<" ", "b", "e", "d", " ">>>>,
    <<<<"p", "i", "a", "n", "o">>, <<"c", "h", "a", "i", "r">>>> }

OtherDetectedLists ==
  { <<>>,
    <<<<"b", "e", "d">>>>,
    <<<<>>>>,
    <<<<"D", "e", "s", "k">>, <<"s", "i", "n", "k">>>> }

FirstEstimate ==
  /\ pc = "estimate"
  /\ IF EstimateRaises(furniture_items, budget_level)
       THEN pc' = "raised" /\ UNCHANGED <<cost_breakdown, first_result>>
       ELSE /\ cost_breakdown' = estimate_cost(furniture_items, budget_level)
            /\ first_result' = cost_breakdown'
            /\ pc' = "estimated"
  /\ estimator' = EstimatorAfterEstimate(furniture_items, budget_level)
  /\ UNCHANGED <<server_vars, furniture_items, budget_level, detected_objects,
                 force_room_type, analysis, orch_vars, engine, intervening>>

\* a call with other arguments; the caller drops what it returns
OtherEstimate ==
  /\ pc = "estimated"
  /\ intervening < MaxIntervening
  /\ \E items \in OtherItemLists, level \in SampleLevels :
       /\ <<items, level>> # <<furniture_items, budget_level>>
       /\ ~EstimateRaises(items, level)
       /\ estimator' = EstimatorAfterEstimate(items, level)
  /\ intervening' = intervening + 1
  /\ UNCHANGED <<server_vars, pc, furniture_items, budget_level, cost_breakdown,
                 detected_objects, force_room_type, analysis, orch_vars,
                 engine, first_result>>

RepeatEstimate ==
  /\ pc = "estimated"
  /\ IF EstimateRaises(furniture_items, budget_level)
       THEN pc' = "raised" /\ UNCHANGED cost_breakdown
       ELSE /\ cost_breakdown' = estimate_cost(furniture_items, budget_level)
            /\ pc' = "repeated"
  /\ estimator' = EstimatorAfterEstimate(furniture_items, budget_level)
  /\ UNCHANGED <<server_vars, furniture_items, budget_level, detected_objects,
                 force_room_type, analysis, orch_vars, engine, repeat_vars>>

FirstAnalyze ==
  /\ pc = "analyze"
  /\ IF AnalyzeRaises(detected_objects, force_room_type)
       THEN pc' = "raised" /\ UNCHANGED <<analysis, first_result>>
       ELSE /\ analysis' = analyze_room(detected_objects, force_room_type)
            /\ first_result' = analysis'
            /\ pc' = "analyzed"
  /\ engine' = EngineAfterAnalyze(detected_objects, force_room_type)
  /\ UNCHANGED <<server_vars, furniture_items, budget_level, detected_objects,
                 force_room_type, cost_breakdown, orch_vars, estimator,
                 intervening>>

\* a call with other arguments; the caller drops what it returns
OtherAnalyze ==
  /\ pc = "analyzed"
  /\ intervening < MaxIntervening
  /\ \E detected \in OtherDetectedLists, forced \in SampleForced :
       /\ <<detected, forced>> # <<detected_objects, force_room_type>>
       /\ ~AnalyzeRaises(detected, forced)
       /\ engine' = EngineAfterAnalyze(detected, forced)
  /\ intervening' = intervening + 1
  /\ UNCHANGED <<server_vars, pc, furniture_items, budget_level, cost_breakdown,
                 detected_objects, force_room_type, analysis, orch_vars,
                 estimator, first_result>>

RepeatAnalyze ==
  /\ pc = "analyzed"
  /\ IF AnalyzeRaises(detected_objects, force_room_type)
       THEN pc' = "raised" /\ UNCHANGED analysis
       ELSE /\ analysis' = analyze_room(detected_objects, force_room_type)
            /\ pc' = "repeated"
  /\ engine' = EngineAfterAnalyze(detected_objects, force_room_type)
  /\ UNCHANGED <<server_vars, furniture_items, budget_level, detected_objects,
                 force_room_type, cost_breakdown, orch_vars, estimator,
                 repeat_vars>>

NextRepeat ==
  \/ FirstEstimate
  \/ OtherEstimate
  \/ RepeatEstimate
  \/ FirstAnalyze
  \/ OtherAnalyze
  \/ RepeatAnalyze

SpecRepeat == InitRepeat /\ [][NextRepeat]_vars

-----------------------------------------------------------------------------
(* Calls of different requests interleaved on the shared instances         *)

Requests == {"r1", "r2"}

ConcItems ==
  { <<"s", "o", "f", "a">>,
    <<"a", "c", "c", "e", "n", "t", " ", "c", "h", "a", "i", "r">> }

ConcLevels == {"budget", "premium"}

ConcLabels == { <<"b", "e", "d">>, <<"s", "o", "f", "a">> }

ConcForced == {<<>>, <<"kitchen">>}

\* a call that has not started: its arguments, and what it returns when it
\* runs alone on fresh instances
EstimateCalls ==
  { [call |-> "estimate_cost",
     args |-> [furniture_items |-> items, budget_level |-> level],
     at |-> "call", locals |-> None, result |-> None,
     alone |-> estimate_cost(items, level)] :
      items \in ListsUpTo(ConcItems, MaxConcLen), level \in ConcLevels }

AnalyzeCalls ==
  { [call |-> "analyze_room",
     args |-> [detected_objects |-> detected, force_room_type |-> forced],
     at |-> "call", locals |-> None, result |-> None,
     alone |-> analyze_room(detected, forced)] :
      detected \in ListsUpTo(ConcLabels, MaxConcLen), forced \in ConcForced }

InitConc ==
  /\ pc = "serving"
  /\ furniture_items = <<>>
  /\ budget_level = "mid-range"
  /\ detected_objects = <<>>
  /\ force_room_type = <<>>
  /\ cost_breakdown = None
  /\ analysis = None
  /\ NoOrchestrator
  /\ FreshInstances
  /\ NoRepeat
  /\ requests \in [Requests -> EstimateCalls \cup AnalyzeCalls]
  /\ NoApp

\* estimate_cost, lines 107-111: the level is coerced, the locals are set up
BeginEstimate(r) ==
  /\ requests[r].call = "estimate_cost"
  /\ requests[r].at = "call"
  /\ requests' = [requests EXCEPT
       ![r].locals = [budget_level |-> CoerceLevel(requests[r].args.budget_level),
                      k |-> 1, items_with_costs |-> <<>>, subtotal |-> 0],
       ![r].at = "loop"]
  /\ UNCHANGED <<pc, furniture_items, budget_level, cost_breakdown,
                 detected_objects, force_room_type, analysis, orch_vars,
                 instances, repeat_vars, app_vars>>

\* one pass of the for loop, lines 113-148
PriceItem(r) ==
  LET req == requests[r]
      items == req.args.furniture_items
  IN  /\ req.call = "estimate_cost"
      /\ req.at = "loop"
      /\ req.locals.k <= Len(items)
      /\ LET line == LineItem(items[req.locals.k], req.locals.budget_level)
         IN  requests' = [requests EXCEPT
               ![r].locals.items_with_costs = Append(@, line),
               ![r].locals.subtotal = @ + line.cost,
               ![r].locals.k = @ + 1]
      /\ estimator' = EstimatorAfterItem(items[req.locals.k],
                                         req.locals.budget_level)
  /\ UNCHANGED <<pc, furniture_items, budget_level, cost_breakdown,
                 detected_objects, force_room_type, analysis, orch_vars,
                 engine, repeat_vars, app_vars>>

\* lines 150-160: installation, total and the returned dict
FinishEstimate(r) ==
  LET req == requests[r]
      installation == TimesInstallationRate(req.locals.subtotal)
  IN  /\ req.call = "estimate_cost"
      /\ req.at = "loop"
      /\ req.locals.k > Len(req.args.furniture_items)
      /\ requests' = [requests EXCEPT
           ![r].result =
              [items |-> req.locals.items_with_costs,
               subtotal |-> req.locals.subtotal,
               installation |-> installation,
               total |-> PlusInstallation(req.locals.subtotal, installation),
               currency |-> "INR",
               budget_level |-> req.locals.budget_level],
           ![r].at = "returned"]
  /\ UNCHANGED <<pc, furniture_items, budget_level, cost_breakdown,
                 detected_objects, force_room_type, analysis, orch_vars,
                 instances, repeat_vars, app_vars>>

\* analyze_room, lines 86-90
ResolveType(r) ==
  LET req == requests[r]
  IN  /\ req.call = "analyze_room"
      /\ req.at = "call"
      /\ requests' = [requests EXCEPT
           ![r].locals =
              [room_type |-> ResolveRoomType(req.args.detected_objects,
                                             req.args.force_room_type),
               current_style |-> None,
               missing_essentials |-> None,
               suggested_additions |-> None],
           ![r].at = "style"]
  /\ UNCHANGED <<pc, furniture_items, budget_level, cost_breakdown,
                 detected_objects, force_room_type, analysis, orch_vars,
                 instances, repeat_vars, app_vars>>

\* line 92
IdentifyStyle(r) ==
  LET req == requests[r]
  IN  /\ req.at = "style"
      /\ requests' = [requests EXCEPT
           ![r].locals.current_style =
              _identify_style(req.args.detected_objects),
           ![r].at = "missing"]
  /\ UNCHANGED <<pc, furniture_items, budget_level, cost_breakdown,
                 detected_objects, force_room_type, analysis, orch_vars,
                 instances, repeat_vars, app_vars>>

\* line 93
FindMissing(r) ==
  LET req == requests[r]
  IN  /\ req.at = "missing"
      /\ requests' = [requests EXCEPT
           ![r].locals.missing_essentials =
              _find_missing_essentials(req.args.detected_objects,
                                       req.locals.room_type),
           ![r].at = "additions"]
  /\ UNCHANGED <<pc, furniture_items, budget_level, cost_breakdown,
                 detected_objects, force_room_type, analysis, orch_vars,
                 instances, repeat_vars, app_vars>>

\* line 94
SuggestAdditions(r) ==
  LET req == requests[r]
  IN  /\ req.at = "additions"
      /\ requests' = [requests EXCEPT
           ![r].locals.suggested_additions =
              _suggest_additions(req.args.detected_objects,
                                 req.locals.room_type),
           ![r].at = "layout"]
  /\ UNCHANGED <<pc, furniture_items, budget_level, cost_breakdown,
                 detected_objects, force_room_type, analysis, orch_vars,
                 instances, repeat_vars, app_vars>>

\* lines 95-106: the layout tips and the returned dict
LayoutAndReturn(r) ==
  LET req == requests[r]
  IN  /\ req.at = "layout"
      /\ requests' = [requests EXCEPT
           ![r].result =
              [room_type |-> req.locals.room_type,
               current_style |-> req.locals.current_style,
               detected_count |-> Len(req.args.detected_objects),
               suggestions |->
                 [missing_essentials |-> req.locals.missing_essentials,
                  add_items |-> req.locals.suggested_additions,
                  layout_tips |->
                    _suggest_layout_improvements(req.args.detected_objects,
                                                 req.locals.room_type)]],
           ![r].at = "returned"]
      /\ engine' = EngineAfterAnalyze(req.args.detected_objects,
                                      req.args.force_room_type)
  /\ UNCHANGED <<pc, furniture_items, budget_level, cost_breakdown,
                 detected_objects, force_room_type, analysis, orch_vars,
                 estimator, repeat_vars, app_vars>>

NextConc ==
  \E r \in Requests :
    \/ BeginEstimate(r)
    \/ PriceItem(r)
    \/ FinishEstimate(r)
    \/ ResolveType(r)
    \/ IdentifyStyle(r)
    \/ FindMissing(r)
    \/ SuggestAdditions(r)
    \/ LayoutAndReturn(r)

SpecConc == InitConc /\ [][NextConc]_vars

-----------------------------------------------------------------------------
(* app.py: /api/analyze requests and the global ai_system                  *)

Workers == {"w1", "w2", "w3"}

\* the object InterioAI(...) returns the n-th time it is constructed
NewInterioAI(n) == [instance |-> n]

InitApp ==
  /\ pc = "serving"
  /\ furniture_items = <<>>
  /\ budget_level = "mid-range"
  /\ detected_objects = <<>>
  /\ force_room_type = <<>>
  /\ cost_breakdown = None
  /\ analysis = None
  /\ NoOrchestrator
  /\ FreshInstances
  /\ NoRepeat
  /\ requests = <<>>
  /\ ai_system = None
  /\ constructed = 0
  /\ workers = [w \in Workers |-> [at |-> "idle", built |-> None, used |-> None]]

AppFrame ==
  UNCHANGED <<pc, furniture_items, budget_level, cost_breakdown,
              detected_objects, force_room_type, analysis, orch_vars,
              instances, repeat_vars, requests>>

\* a request arrives; its thread enters the handler and calls
\* init_ai_system (line 63)
Arrive(w) ==
  /\ workers[w].at = "idle"
  /\ workers' = [workers EXCEPT ![w].at = "init"]
  /\ UNCHANGED <<ai_system, constructed>>
  /\ AppFrame

\* line 34: `if ai_system is None`
TestUnset(w) ==
  /\ workers[w].at = "init"
  /\ workers' = [workers EXCEPT
       ![w].at = IF ai_system = None THEN "construct" ELSE "ready"]
  /\ UNCHANGED <<ai_system, constructed>>
  /\ AppFrame

\* lines 35-39: the call InterioAI(...), which loads the models
Construct(w) ==
  /\ workers[w].at = "construct"
  /\ constructed' = constructed + 1
  /\ workers' = [workers EXCEPT ![w].built = NewInterioAI(constructed'),
                                ![w].at = "assign"]
  /\ UNCHANGED ai_system
  /\ AppFrame

\* line 35: the store to the global
Assign(w) ==
  /\ workers[w].at = "assign"
  /\ ai_system' = workers[w].built
  /\ workers' = [workers EXCEPT ![w].at = "ready"]
  /\ UNCHANGED constructed
  /\ AppFrame

\* line 113: the handler reads the global and calls its analyze_room
Analyze(w) ==
  /\ workers[w].at = "ready"
  /\ workers' = [workers EXCEPT ![w].used = ai_system, ![w].at = "answered"]
  /\ UNCHANGED <<ai_system, constructed>>
  /\ AppFrame

NextApp ==
  \E w \in Workers :
    \/ Arrive(w)
    \/ TestUnset(w)
    \/ Construct(w)
    \/ Assign(w)
    \/ Analyze(w)

SpecApp == InitApp /\ [][NextApp]_vars

-----------------------------------------------------------------------------
(* Properties of estimate_cost                                             *)

EstimateReturned == pc = "done" /\ analysis = None

AnalyzeReturned == pc = "done" /\ cost_breakdown = None

RECURSIVE SumOfCosts(_)
SumOfCosts(lines) ==
  IF lines = <<>> THEN 0 ELSE lines[1].cost + SumOfCosts(Tail(lines))

\* C1: for every item list and budget level the returned breakdown has
\* subtotal = sum of the line costs, installation = exactly one tenth of
\* subtotal (10 * installation = subtotal), and total = subtotal +
\* installation.
C1_BreakdownArithmetic ==
  EstimateReturned =>
    /\ cost_breakdown # None
    /\ cost_breakdown.subtotal = SumOfCosts(cost_breakdown.items)
    /\ cost_breakdown.installation.exact
    /\ cost_breakdown.installation.tenths = cost_breakdown.subtotal
    /\ cost_breakdown.total.exact
    /\ cost_breakdown.total.tenths =
         10 * cost_breakdown.subtotal + cost_breakdown.installation.tenths

\* two lines of different cost have been summed and surcharged
C1_Witness ==
  /\ EstimateReturned
  /\ cost_breakdown # None
  /\ Len(cost_breakdown.items) >= 2
  /\ cost_breakdown.items[1].cost # cost_breakdown.items[2].cost
  /\ cost_breakdown.installation.tenths > 0

\* C2: an item is priced at the catalog entry whose key equals its lowercased,
\* trimmed name when there is such a key, wherever the key stands; otherwise
\* at the first key in declaration order that is a substring of the
\* normalized name or contains it.
C2_ExactThenFirstPartial ==
  EstimateReturned =>
    /\ cost_breakdown # None
    /\ \A i \in 1..Len(furniture_items) :
         LET name == Strip(Lower(furniture_items[i]))
             level == cost_breakdown.budget_level
             cost == cost_breakdown.items[i].cost
             exact == {k \in Keys : furniture_prices[k].key = name}
             partial(k) == \/ IsSubstr(furniture_prices[k].key, name)
                           \/ IsSubstr(name, furniture_prices[k].key)
         IN  /\ \A k \in exact : cost = furniture_prices[k].price[level]
             /\ exact = {} =>
                  \A k \in Keys :
                    (partial(k) /\ \A j \in 1..(k - 1) : ~partial(j)) =>
                      cost = furniture_prices[k].price[level]

\* one item has an exact key that stands after a differently priced key
\* containing it, another item has no exact key and matches partially
C2_Witness ==
  /\ EstimateReturned
  /\ cost_breakdown # None
  /\ \E i \in 1..Len(furniture_items) :
       LET name == Strip(Lower(furniture_items[i]))
       IN  /\ InCatalog(name)
           /\ \E k \in Keys :
                /\ furniture_prices[k].key # name
                /\ IsSubstr(name, furniture_prices[k].key)
                /\ \A j \in 1..k : furniture_prices[j].key # name
                /\ furniture_prices[k].price[cost_breakdown.budget_level]
                     # cost_breakdown.items[i].cost
  /\ \E i \in 1..Len(furniture_items) :
       LET name == Strip(Lower(furniture_items[i]))
       IN  ~InCatalog(name) /\ PartialKeys(name) # {}

\* C3: an item whose normalized name neither equals, contains, nor is
\* contained in any catalog key costs the tier default: 5000 at budget, 12000
\* at mid-range, 30000 at premium.
C3_UnknownItemDefault ==
  EstimateReturned =>
    /\ cost_breakdown # None
    /\ \A i \in 1..Len(furniture_items) :
         LET name == Strip(Lower(furniture_items[i]))
             unknown == \A k \in Keys :
                          /\ furniture_prices[k].key # name
                          /\ ~IsSubstr(furniture_prices[k].key, name)
                          /\ ~IsSubstr(name, furniture_prices[k].key)
             cost == cost_breakdown.items[i].cost
         IN  unknown =>
               /\ cost_breakdown.budget_level = "budget" => cost = 5000
               /\ cost_breakdown.budget_level = "mid-range" => cost = 12000
               /\ cost_breakdown.budget_level = "premium" => cost = 30000

\* a single unknown item at mid-range has been priced at 12000
C3_Witness ==
  /\ EstimateReturned
  /\ cost_breakdown # None
  /\ furniture_items = <<<<"p", "i", "a", "n", "o">>>>
  /\ budget_level = "mid-range"
  /\ cost_breakdown.items[1].cost = 12000

\* C4: for a budget level that is none of 'budget', 'mid-range', 'premium'
\* the call returns, field for field (budget_level included), what it returns
\* for 'mid-range'.
C4_InvalidTierIsMidRange ==
  (EstimateReturned /\ budget_level \notin {"budget", "mid-range", "premium"})
    =>
    /\ cost_breakdown # None
    /\ cost_breakdown.budget_level = "mid-range"
    /\ cost_breakdown = estimate_cost(furniture_items, "mid-range")

\* an invalid level has priced a list whose budget and premium prices differ
\* from the mid-range ones
C4_Witness ==
  /\ EstimateReturned
  /\ cost_breakdown # None
  /\ budget_level = "invalid-tier"
  /\ Len(furniture_items) >= 1
  /\ cost_breakdown.subtotal # estimate_cost(furniture_items, "budget").subtotal
  /\ cost_breakdown.subtotal # estimate_cost(furniture_items, "premium").subtotal

\* C5: the breakdown has exactly one line item per input item, in input
\* order, each with quantity 1; duplicate names are not merged.
C5_OneLinePerItem ==
  EstimateReturned =>
    /\ cost_breakdown # None
    /\ Len(cost_breakdown.items) = Len(furniture_items)
    /\ \A i \in 1..Len(furniture_items) :
         /\ cost_breakdown.items[i].quantity = 1
         /\ cost_breakdown.items[i].name = Title(furniture_items[i])

\* the same name has been priced twice and stands on two lines
C5_Witness ==
  /\ EstimateReturned
  /\ cost_breakdown # None
  /\ Len(furniture_items) = 2
  /\ furniture_items[1] = furniture_items[2]
  /\ Len(cost_breakdown.items) = 2
  /\ cost_breakdown.items[1] = cost_breakdown.items[2]

\* C6: for the empty item list and any budget-level string the call returns
\* an empty line list with subtotal, installation and total all 0.
C6_EmptyListAllZero ==
  (EstimateReturned /\ furniture_items = <<>>) =>
    /\ cost_breakdown # None
    /\ cost_breakdown.items = <<>>
    /\ cost_breakdown.subtotal = 0
    /\ cost_breakdown.installation = [tenths |-> 0, exact |-> TRUE]
    /\ cost_breakdown.total = [tenths |-> 0, exact |-> TRUE]

\* the empty list has been estimated under a level that is no tier
C6_Witness ==
  /\ EstimateReturned
  /\ furniture_items = <<>>
  /\ budget_level = "invalid-tier"
  /\ cost_breakdown # None

-----------------------------------------------------------------------------
(* Properties of analyze_room                                              *)

\* number of detected labels whose lowercased text contains an indicator of
\* the i-th room type of the indicator table
RoomScore(i) ==
  Cardinality({d \in 1..Len(detected_objects) :
                 \E w \in 1..Len(room_indicators[i].indicators) :
                   IsSubstr(room_indicators[i].indicators[w],
                            Lower(detected_objects[d]))})

\* C7: with no forced room type, room_type is the room type of highest score
\* (score = number of detected labels whose lowercased text contains one of
\* the room type's indicators); on a tie the room type declared first in the
\* indicator table wins; when every score is zero it is 'living_room'.
C7_HighestScoreFirstDeclared ==
  (AnalyzeReturned /\ force_room_type = <<>>) =>
    /\ analysis # None
    /\ LET n == Len(room_indicators)
       IN  IF \A i \in 1..n : RoomScore(i) = 0
             THEN analysis.room_type = "living_room"
             ELSE \E w \in 1..n :
                    /\ analysis.room_type = room_indicators[w].room_type
                    /\ \A j \in 1..n : RoomScore(j) <= RoomScore(w)
                    /\ \A j \in 1..(w - 1) : RoomScore(j) < RoomScore(w)

\* two room types tie at the highest score and the one declared first has
\* been returned
C7_Witness ==
  /\ AnalyzeReturned
  /\ force_room_type = <<>>
  /\ analysis # None
  /\ \E w \in 1..Len(room_indicators) :
       /\ analysis.room_type = room_indicators[w].room_type
       /\ RoomScore(w) > 0
       /\ \E j \in (w + 1)..Len(room_indicators) : RoomScore(j) = RoomScore(w)

\* C8 as stated: whenever a forced room type is supplied, room_type is that
\* value verbatim and the detected labels have no influence on it.
C8_ForcedVerbatim_Original ==
  (AnalyzeReturned /\ force_room_type # <<>>) =>
    /\ analysis # None
    /\ analysis.room_type = force_room_type[1]

\* C8 (amended): whenever a non-empty forced room type is supplied, room_type
\* is that value verbatim for every detected list, whether or not the value
\* is in the rules table.
C8_NonEmptyForcedVerbatim ==
  (AnalyzeReturned /\ force_room_type # <<>> /\ force_room_type[1] # "") =>
    /\ analysis # None
    /\ analysis.room_type = force_room_type[1]

\* a forced room type outside the rules table has been returned although the
\* detected labels score for another room type
C8_Witness ==
  /\ AnalyzeReturned
  /\ analysis # None
  /\ force_room_type = <<"garage">>
  /\ \E i \in 1..Len(room_indicators) : RoomScore(i) > 0
  /\ analysis.room_type = "garage"

\* the bidirectional substring test between a catalog item and a detected
\* label as the engine normalizes it (lowercased)
Present(item) ==
  \E d \in 1..Len(detected_objects) :
    \/ IsSubstr(Lower(detected_objects[d]), item)
    \/ IsSubstr(item, Lower(detected_objects[d]))

\* s is t with some elements left out, the others in the order of t
IsOrderedSelection(s, t) ==
  \E f \in [1..Len(s) -> 1..Len(t)] :
    /\ \A i \in 1..Len(s) : s[i] = t[f[i]]
    /\ \A i, j \in 1..Len(s) : i < j => f[i] < f[j]

RulesInForce ==
  IF analysis.room_type \in DOMAIN room_furniture
    THEN room_furniture[analysis.room_type]
    ELSE room_furniture["living_room"]

\* the items of a bucket that match no detected label, in declared order
Remaining(bucket) == SelectSeq(bucket, LAMBDA item : ~Present(item))

MinOf(a, b) == IF a < b THEN a ELSE b

C11_UnknownRoomTypeUsesLivingRoom ==
  (AnalyzeReturned /\ analysis # None
     /\ analysis.room_type \notin DOMAIN room_furniture) =>
    analysis.suggestions.add_items
      = analyze_room(detected_objects, <<"living_room">>).suggestions.add_items

\* a room type outside the table has been analyzed with a detected label that
\* removes a living-room item, and items are suggested
C11_Witness ==
  /\ AnalyzeReturned
  /\ analysis # None
  /\ analysis.room_type = "garage"
  /\ detected_objects = <<<<"s", "o", "f", "a">>>>
  /\ Len(analysis.suggestions.add_items) = 7
  /\ analysis.suggestions.add_items[1]
       = <<"c", "o", "f", "f", "e", "e", " ", "t", "a", "b", "l", "e">>

\* the common and the luxury items of the bedroom named by the scenario
BedroomCommonNamed ==
  {<<"d", "r", "e", "s", "s", "e", "r">>,
   <<"b", "e", "d", "s", "i", "d", "e", " ", "l", "a", "m", "p">>,
   <<"r", "u", "g">>,
   <<"m", "i", "r", "r", "o", "r">>}

BedroomLuxuryNamed ==
  {<<"v", "a", "n", "i", "t", "y">>,
   <<"r", "e", "a", "d", "i", "n", "g", " ", "c", "h", "a", "i", "r">>,
   <<"b", "e", "n", "c", "h">>}

BedDetectedInBedroom ==
  /\ AnalyzeReturned
  /\ analysis # None
  /\ detected_objects = <<<<"b", "e", "d">>>>
  /\ force_room_type = <<"bedroom">>

\* C12: for detected = ['bed'] with forced room type 'bedroom',
\* missing_essentials is ['nightstand', 'wardrobe'] and add_items begins with
\* those two, followed by at most 3 items from {dresser, bedside lamp, rug,
\* mirror}, followed by at most 2 items from {vanity, reading chair, bench}.
C12_BedroomScenario ==
  BedDetectedInBedroom =>
    LET missing == <<<<"n", "i", "g", "h", "t", "s", "t", "a", "n", "d">>,
                     <<"w", "a", "r", "d", "r", "o", "b", "e">>>>
        add_items == analysis.suggestions.add_items
    IN  /\ analysis.suggestions.missing_essentials = missing
        /\ Len(add_items) >= 2
        /\ SubSeq(add_items, 1, 2) = missing
        /\ \E c \in 0..3 :
             /\ 2 + c <= Len(add_items)
             /\ Len(add_items) - (2 + c) <= 2
             /\ \A i \in 3..(2 + c) : add_items[i] \in BedroomCommonNamed
             /\ \A i \in (3 + c)..Len(add_items) :
                  add_items[i] \in BedroomLuxuryNamed

\* the scenario has run and both caps have been reached
C12_Witness ==
  /\ BedDetectedInBedroom
  /\ Len(analysis.suggestions.add_items) = 7

\* the detected labels, lowercased and trimmed
NormalizedLabels ==
  [i \in 1..Len(detected_objects) |-> Strip(Lower(detected_objects[i]))]

\* C13: matching of detected labels is case-insensitive and
\* whitespace-trimmed: changing the letter case of a label or padding it with
\* whitespace never changes room_type, missing_essentials or add_items, so
\* the result is that of the normalized labels.
C13_CaseAndWhitespaceInsensitive ==
  (AnalyzeReturned /\ analysis # None) =>
    LET normal == analyze_room(NormalizedLabels, force_room_type)
    IN  /\ analysis.room_type = normal.room_type
        /\ analysis.suggestions.missing_essentials
             = normal.suggestions.missing_essentials
        /\ analysis.suggestions.add_items = normal.suggestions.add_items

\* number of detected labels whose lowercased text contains a keyword of the
\* i-th style of the style table
StyleScore(i) ==
  Cardinality({d \in 1..Len(detected_objects) :
                 \E w \in 1..Len(styles[i].keywords) :
                   IsSubstr(styles[i].keywords[w], Lower(detected_objects[d]))})

\* C18: current_style is the style of highest score (score = number of
\* detected labels whose lowercased text contains one of the style's
\* keywords), ties going to the style declared first in the style table; when
\* no keyword matches any label it is 'modern'.
C18_StyleHighestScoreFirstDeclared ==
  (AnalyzeReturned /\ analysis # None) =>
    LET n == Len(styles)
    IN  IF \A i \in 1..n : StyleScore(i) = 0
          THEN analysis.current_style = "modern"
          ELSE \E w \in 1..n :
                 /\ analysis.current_style = styles[w].style
                 /\ \A j \in 1..n : StyleScore(j) <= StyleScore(w)
                 /\ \A j \in 1..(w - 1) : StyleScore(j) < StyleScore(w)

\* two styles tie at the highest score and the one declared first has been
\* returned
C18_Witness ==
  /\ AnalyzeReturned
  /\ analysis # None
  /\ \E w \in 1..Len(styles) :
       /\ analysis.current_style = styles[w].style
       /\ StyleScore(w) > 0
       /\ \E j \in (w + 1)..Len(styles) : StyleScore(j) = StyleScore(w)

\* C19: no core operation ends in an error: for every list of labels (empty
\* list, empty strings, unknown labels, duplicates), every forced room-type
\* string or none, and every tier string, analyze_room and estimate_cost each
\* return a result value.
C19_NeverRaises ==
  /\ pc # "raised"
  /\ pc = "done" => (cost_breakdown # None \/ analysis # None)

\* an empty name, an unknown name and a known name have been priced under a
\* level that is no tier
C19_Witness ==
  /\ pc = "done"
  /\ cost_breakdown # None
  /\ budget_level \notin BudgetLevels
  /\ Len(furniture_items) = 2
  /\ furniture_items[1] = <<>>
  /\ furniture_items[2] = <<"p", "i", "a", "n", "o">>

-----------------------------------------------------------------------------
(* Properties of the orchestrator run                                      *)

PreferencesApplied == pc \in {"designs", "edit", "cost", "returned"}

\* add_items as the engine returned it in this run
EngineAddItems == engine_analysis.suggestions.add_items

FallbackFired == EngineAddItems = <<>> \/ detected_objects = <<>>

\* the starter set handed to this run by _get_essential_furniture
StarterSet ==
  _get_essential_furniture(RoomTypeOrAnalysed(user_room_type, analysis),
                           StyleOrAnalysed(user_style, analysis))

AcceptedLabels == {room_type_map[i].label : i \in 1..Len(room_type_map)}

\* the starter set furniture_sets declares for the room type of a label
OwnStarterSet(label) ==
  furniture_sets[CHOOSE i \in 1..Len(furniture_sets) :
                   furniture_sets[i].key = ReplaceSpaces(Lower(label))].items

NonIndianStyle ==
  Lower(StyleOrAnalysed(user_style, analysis)) # <<"i", "n", "d", "i", "a", "n">>

\* C14: for every room-type label the orchestrator accepts and a non-Indian
\* style, when the fallback fires the final add_items is the starter set
\* that furniture_sets declares for that room type.
C14_FallbackUsesOwnStarterSet ==
  (/\ PreferencesApplied
   /\ FallbackFired
   /\ user_room_type # <<>>
   /\ user_room_type[1] \in AcceptedLabels
   /\ NonIndianStyle)
    => analysis.suggestions.add_items = OwnStarterSet(user_room_type[1])

\* C15: add_items is replaced by the starter set exactly when the engine's
\* add_items is empty or nothing was detected, and is otherwise what the
\* engine produced; an installed starter set has 5 or 6 items, and so has
\* the starter set of every room-type and style label (the sets are fixed, so
\* they are measured once, when a run starts).
C15_FallbackExactlyWhenNeeded ==
  /\ PreferencesApplied =>
       IF FallbackFired
         THEN /\ analysis.suggestions.add_items = StarterSet
              /\ Len(analysis.suggestions.add_items) \in 5..6
         ELSE analysis.suggestions.add_items = EngineAddItems
  /\ pc = "detect" =>
       \A r \in SampleRoomLabels \ {<<>>} :
         \A s \in SampleStyleLabels \ {<<>>} :
           Len(_get_essential_furniture(r[1], s[1])) \in 5..6

\* a furnished room whose engine suggestions are kept, and an empty room that
\* gets the starter set
C15_Witness ==
  /\ pc = "returned"
  /\ detected_objects = <<<<"b", "e", "d">>>>
  /\ ~FallbackFired
  /\ analysis.suggestions.add_items = EngineAddItems
  /\ Len(analysis.suggestions.add_items) > 6

\* C16: a run never ends in an exception, and its result has a non-empty
\* add_items and a cost breakdown with at least one line item, whatever was
\* detected and whatever room type, style and tier were asked for.
C16_AlwaysSuggestionAndPrice ==
  /\ pc # "raised"
  /\ pc = "returned" =>
       /\ analysis.suggestions.add_items # <<>>
       /\ cost_breakdown_inr # None
       /\ Len(cost_breakdown_inr.items) >= 1

\* a room where the engine has nothing left to suggest
C16_Witness ==
  /\ pc = "returned"
  /\ detected_objects # <<>>
  /\ EngineAddItems = <<>>
  /\ cost_breakdown_inr # None
  /\ Len(cost_breakdown_inr.items) >= 5

\* C17: the converted breakdown is the estimator's breakdown with every
\* line-item cost, the subtotal, the installation and the total multiplied by
\* USD_TO_INR; names, quantities and order of the lines are kept; and
\* total = subtotal + installation and installation = 10% of subtotal hold
\* exactly after the conversion.
C17_UniformConversion ==
  (pc = "returned" /\ cost_breakdown_inr # None) =>
    LET usd == cost_breakdown
        inr == cost_breakdown_inr
    IN  /\ Len(inr.items) = Len(usd.items)
        /\ \A i \in 1..Len(usd.items) :
             /\ inr.items[i].name = usd.items[i].name
             /\ inr.items[i].quantity = usd.items[i].quantity
             /\ inr.items[i].cost.exact
             /\ inr.items[i].cost.tenths = USD_TO_INR * 10 * usd.items[i].cost
        /\ inr.subtotal.exact /\ inr.installation.exact /\ inr.total.exact
        /\ inr.subtotal.tenths = USD_TO_INR * 10 * usd.subtotal
        /\ inr.installation.tenths = USD_TO_INR * usd.installation.tenths
        /\ inr.total.tenths = USD_TO_INR * usd.total.tenths
        /\ inr.total.tenths = inr.subtotal.tenths + inr.installation.tenths
        /\ 10 * inr.installation.tenths = inr.subtotal.tenths

C17_Witness ==
  /\ pc = "returned"
  /\ cost_breakdown_inr # None
  /\ Len(cost_breakdown_inr.items) = 8
  /\ budget_level = "premium"
  /\ cost_breakdown_inr.installation.tenths > 0

-----------------------------------------------------------------------------
(* Properties of repeated calls                                            *)

\* what the second of the two identical calls returned
RepeatedResult == IF analysis = None THEN cost_breakdown ELSE analysis

\* C20: the second of two identical calls on one instance returns what the
\* first returned, whatever calls with other arguments were made in between,
\* and no call changes the estimator's price table or the engine's
\* room-furniture rules and style table.
C20_RepeatableAndTablesUntouched ==
  /\ estimator = CostEstimator
  /\ engine = InteriorSuggestionEngine
  /\ pc = "repeated" => RepeatedResult = first_result

\* an analysis repeated after other analyses on the same engine
C20_Witness ==
  /\ pc = "repeated"
  /\ intervening = MaxIntervening
  /\ first_result # None
  /\ analysis = first_result
  /\ analysis.suggestions.missing_essentials # <<>>
  /\ detected_objects # <<>>

-----------------------------------------------------------------------------
(* Properties of concurrent calls                                          *)

\* C21: in every interleaving of the steps of two calls on the shared
\* engine and estimator, no step changes the price table, the rules or the
\* style table that the other call reads, and each call returns what it
\* returns when it runs alone.
C21_ConcurrentCallsIndependent ==
  /\ estimator = CostEstimator
  /\ engine = InteriorSuggestionEngine
  /\ \A r \in DOMAIN requests :
       requests[r].at = "returned" => requests[r].result = requests[r].alone

\* two estimates of the same partially matched item at different levels,
\* the second returning while the first is still inside its loop
C21_Witness ==
  /\ pc = "serving"
  /\ requests["r1"].call = "estimate_cost"
  /\ requests["r2"].call = "estimate_cost"
  /\ requests["r1"].args.furniture_items = requests["r2"].args.furniture_items
  /\ requests["r1"].args.furniture_items # <<>>
  /\ requests["r1"].args.budget_level # requests["r2"].args.budget_level
  /\ requests["r1"].at = "loop"
  /\ requests["r1"].locals.items_with_costs # <<>>
  /\ requests["r2"].at = "returned"
  /\ requests["r2"].result.subtotal > 0

-----------------------------------------------------------------------------
(* Properties of the result the orchestrator hands back                     *)

\* C22: from the engine's return to the orchestrator's return, room_type,
\* current_style, missing_essentials, add_items and layout_tips of the
\* analysis keep the values the engine gave them.
C22_AnalysisKeptAsReturned ==
  (engine_analysis # None /\ analysis # None) =>
    /\ analysis.room_type = engine_analysis.room_type
    /\ analysis.current_style = engine_analysis.current_style
    /\ analysis.suggestions.missing_essentials =
         engine_analysis.suggestions.missing_essentials
    /\ analysis.suggestions.add_items = engine_analysis.suggestions.add_items
    /\ analysis.suggestions.layout_tips =
         engine_analysis.suggestions.layout_tips

Called(name) == \E i \in 1..Len(calls) : calls[i] = name

\* every call of `first` comes before every call of `second`
Precedes(first, second) ==
  \A i, j \in 1..Len(calls) :
    (calls[i] = first /\ calls[j] = second) => i < j

results ==
  [detected_objects |-> detected_objects,
   dimensions |-> dimensions,
   analysis |-> analysis,
   design_files |-> design_files,
   edited_image |-> edited_image,
   cost_breakdown |-> cost_breakdown_inr,
   user_preferences |-> [room_type |-> user_room_type, style |-> user_style]]

\* what this run returns, for its arguments and the outcomes of its other
\* collaborators, when the detector reports the list `detected`
RunResults(detected) ==
  LET analysed ==
        WithPreferences(
          analyze_room(detected, MappedRoomType(user_room_type)),
          detected, user_room_type, user_style)
      suggested_items == analysed.suggestions.add_items
  IN  [detected_objects |-> detected,
       dimensions |-> dimensions,
       analysis |-> analysed,
       design_files |-> design_files,
       edited_image |-> edited_image,
       cost_breakdown |->
         IF suggested_items # <<>>
           THEN _convert_to_inr(estimate_cost(suggested_items, budget_level))
           ELSE None,
       user_preferences |->
         [room_type |-> user_room_type, style |-> user_style]]

\* C24: a failure of the detector is reported as a distinct outcome: the
\* result of a run in which the detector failed differs from the result of
\* the run in which the detector succeeded and found no furniture.
C24_DetectorFailureDistinct ==
  (pc = "returned" /\ detector_failed) => results # RunResults(<<>>)

-----------------------------------------------------------------------------
(* Properties of the tables                                                *)

\* C25: every entry of the pricing catalog, and the triple of unknown-item
\* defaults, has three non-negative integer prices with
\* budget <= mid-range <= premium.
C25_TiersOrdered ==
  /\ \A k \in Keys :
       LET price == furniture_prices[k].price
       IN  /\ DOMAIN price = BudgetLevels
           /\ \A level \in BudgetLevels : price[level] \in Nat
           /\ price["budget"] <= price["mid-range"]
           /\ price["mid-range"] <= price["premium"]
  /\ \A level \in BudgetLevels : DefaultCost(level) \in Nat
  /\ DefaultCost("budget") <= DefaultCost("mid-range")
  /\ DefaultCost("mid-range") <= DefaultCost("premium")

\* an estimate at the premium tier that used a catalog entry and the default
C25_Witness ==
  /\ EstimateReturned
  /\ cost_breakdown # None
  /\ furniture_items = <<<<"s", "o", "f", "a">>, <<"p", "i", "a", "n", "o">>>>
  /\ budget_level = "premium"
  /\ cost_breakdown.items[1].cost = 75000
  /\ cost_breakdown.items[2].cost = 30000

-----------------------------------------------------------------------------
(* Properties of the HTTP layer                                            *)

\* C26: however the /api/analyze requests interleave while ai_system is
\* unset, InterioAI is constructed at most once and every request uses that
\* one instance.
C26_InitializedOnce ==
  /\ constructed <= 1
  /\ \A v, w \in DOMAIN workers :
       (workers[v].at = "answered" /\ workers[w].at = "answered") =>
         workers[v].used = workers[w].used

-----------------------------------------------------------------------------
(* Consistency of the engine's two lists                                   *)

\* C27: in every result of the engine's analyze_room, a forced room type
\* outside the rules table included, missing_essentials is exactly the
\* leading essentials segment of add_items: it is a prefix of add_items, and
\* it holds every item of the essential bucket in force that add_items
\* starts with.
C27_MissingIsLeadingEssentials ==
  (AnalyzeReturned /\ analysis # None) =>
    LET missing == analysis.suggestions.missing_essentials
        add_items == analysis.suggestions.add_items
    IN  /\ Len(missing) <= Len(add_items)
        /\ SubSeq(add_items, 1, Len(missing)) = missing
        /\ missing = Remaining(RulesInForce.essential)

-----------------------------------------------------------------------------
(* Consistency of the orchestrator's result                                *)

\* C28: in the result the orchestrator's analyze_room returns, no item of
\* suggestions.add_items matches a label of detected_objects (one contained
\* in the other, case ignored): furniture that was detected in the room is
\* never suggested.
C28_NoDetectedItemSuggested ==
  (pc = "returned" /\ analysis # None) =>
    \A i \in 1..Len(analysis.suggestions.add_items) :
      ~Present(Lower(analysis.suggestions.add_items[i]))

-----------------------------------------------------------------------------
(* The /api/analyze response                                               *)

\* the arguments app.py passes to analyze_room: the mid-range tier, and the
\* form's room type and style, which are strings (possibly empty)
AppCall ==
  /\ budget_level = "mid-range"
  /\ user_room_type # <<>>
  /\ user_style # <<>>

\* the response built from the orchestrator's results (the echoed form
\* fields, the timestamp and the file links left out)
response_data ==
  [detectedItems |-> results.detected_objects,
   suggestedItems |-> Take(results.analysis.suggestions.add_items, 6),
   estimatedCost |->
     IF results.cost_breakdown # None
       THEN results.cost_breakdown.total
       ELSE 0]

\* the converted mid-range total of a list of items, 0 for no items
TotalOf(items) ==
  IF items = <<>>
    THEN 0
    ELSE _convert_to_inr(estimate_cost(items, "mid-range")).total

\* C29: in every /api/analyze response, estimatedCost is the total cost of
\* exactly the items returned in suggestedItems.
C29_CostOfShownItems ==
  (pc = "returned" /\ AppCall) =>
    response_data.estimatedCost = TotalOf(response_data.suggestedItems)

-----------------------------------------------------------------------------
(* Coverage of the suggested items by the pricing catalog                  *)

\* the name under which estimate_cost looks an item up
HasExactKey(item) == InCatalog(Strip(Lower(item)))

AllHaveExactKey(items) == \A i \in 1..Len(items) : HasExactKey(items[i])

\* C30: every item that can appear in add_items (every essential, common and
\* luxury item of every room type of the rules table, every item of every
\* starter set of the fallback, in its plain and in its Indian variant) has an
\* exact key in the pricing catalog after normalization, and so has every
\* item of the add_items the engine returns.
C30_SuggestedItemsInCatalog ==
  /\ \A room_type \in DOMAIN room_furniture :
       \A bucket \in {"essential", "common", "luxury"} :
         AllHaveExactKey(room_furniture[room_type][bucket])
  /\ \A i \in 1..Len(furniture_sets) : AllHaveExactKey(furniture_sets[i].items)
  /\ \A r \in SampleRoomLabels \ {<<>>} :
       \A s \in SampleStyleLabels \ {<<>>} :
         AllHaveExactKey(_get_essential_furniture(r[1], s[1]))
  /\ (AnalyzeReturned /\ analysis # None) =>
       AllHaveExactKey(analysis.suggestions.add_items)

====
